---- MODULE Spec2Model ----
(***************************************************************************)
(* Model of the YOLO benchmarking harness: the measurement primitives of   *)
(* src/src/utils/fps.py (FPSCalculator, InferenceTimer), the logger of     *)
(* src/src/utils/logger.py and the benchmark driver of                     *)
(* src/src/run_yolov8.py with its background sampler thread.               *)
(*                                                                         *)
(* Numbers.  time.time() readings are integer ticks of the clock `now`.    *)
(* A float that the code obtains by a division is an exact rational, kept  *)
(* as a reduced pair <<numerator, denominator>>; Python's 0.0 is <<0, 1>>. *)
(* Python's None is the empty tuple; an Optional clock reading t is <<t>>. *)
(***************************************************************************)
EXTENDS Integers, Sequences, FiniteSets, TLC

VARIABLES
    now,              \* the wall clock read by time.time()
    fps_calc,         \* the FPSCalculator object
    inference_timer,  \* the InferenceTimer object
    op,               \* name of the last method called on the object under test
    ret,              \* what that call returned (None for a method returning nothing)
    intervals,        \* history: frame intervals recorded since the last start()/reset()
    since_reset,      \* history: reset() was called and no start()/update() since
    durs,             \* history: durations measured by stop() since the last reset()
    \* one benchmark run (run_yolov8.py)
    pc,               \* where the main thread is in run_camera_benchmark / run_image_benchmark
    mode,             \* "camera" or "image"
    limit,            \* duration (camera, in ticks) or num_iterations (image)
    cap,              \* the cv2.VideoCapture handle: "none", "open" or "released"
    monitoring_active,
    sampler_pc,       \* where monitor_thread is in monitor_loop
    snapshot,         \* monitor_loop's snapshot being built
    wake_at,          \* clock reading at which the sampler's time.sleep(1.0) may return
    join_deadline,    \* clock reading at which join(timeout=2.0) may give up
    metrics_buffer,   \* logger.metrics_buffer
    log_file,         \* the lines of the human-readable log, by kind
    loc,              \* the main thread's local variables
    summary,          \* logger.summary
    json_file,        \* what save_json wrote, None before
    interrupted,      \* a KeyboardInterrupt was raised in the benchmark loop
    main_appended,    \* history: the records the main thread appended, in order
    sampler_appended, \* history: the records the sampler thread appended, in order
    calls,            \* history: how often write_summary and save_json were called
    is_raspberry_pi,  \* monitor.is_raspberry_pi, probed when the monitor is constructed
    \* the objects of logger.py, monitor.py and compare_results.py on their own
    loggers,          \* the BenchmarkLogger instances constructed so far, oldest first
    sensors,          \* what vcgencmd and the thermal_zone file give when asked
    attempted,        \* history: the sensors the last SystemMonitor call asked
    comparator,       \* the BenchmarkComparator object
    outputs,          \* what main() of compare_results.py printed and wrote
    captures          \* history: what each cap.read() of the camera loop gave, in order

auxVars == <<loggers, sensors, attempted, comparator, outputs, captures>>

unitVars == <<op, ret, intervals, since_reset, durs>>

runVars == <<pc, mode, limit, cap, monitoring_active, sampler_pc, snapshot, wake_at,
             join_deadline, metrics_buffer, log_file, loc, summary, json_file,
             interrupted, main_appended, sampler_appended, calls, is_raspberry_pi, auxVars>>

vars == <<now, fps_calc, inference_timer, unitVars, runVars>>

----------------------------------------------------------------------------
(* Bounds of the model *)

MaxTime == 4
MaxWindow == 3
MaxFrames == 4
MaxTimes == 3

----------------------------------------------------------------------------
(* Values *)

None == <<>>
Some(v) == <<v>>
Val(o) == o[1]

RECURSIVE GCD(_, _)
GCD(a, b) == IF b = 0 THEN a ELSE GCD(b, a % b)

\* n / d for n >= 0, d > 0, in lowest terms
Frac(n, d) == LET g == GCD(n, d) IN <<n \div g, d \div g>>

Num(n) == <<n, 1>>
Zero == <<0, 1>>

\* q1 <= q2 for rationals with positive denominators
FracLe(q1, q2) == q1[1] * q2[2] <= q2[1] * q1[2]

FracAdd(q1, q2) == Frac(q1[1] * q2[2] + q2[1] * q1[2], q1[2] * q2[2])

\* q1 - q2, for q1 >= q2
FracSub(q1, q2) == Frac(q1[1] * q2[2] - q2[1] * q1[2], q1[2] * q2[2])

FracMulInt(q, n) == Frac(q[1] * n, q[2])

FracDivInt(q, n) == Frac(q[1], q[2] * n)

RECURSIVE FracSum(_)
FracSum(s) == IF s = <<>> THEN Zero ELSE FracAdd(Head(s), FracSum(Tail(s)))

RECURSIVE Sum(_)
Sum(s) == IF s = <<>> THEN 0 ELSE Head(s) + Sum(Tail(s))

RECURSIVE SeqMin(_)
SeqMin(s) ==
    IF Len(s) = 1 THEN s[1]
    ELSE LET m == SeqMin(Tail(s)) IN IF s[1] <= m THEN s[1] ELSE m

RECURSIVE SeqMax(_)
SeqMax(s) ==
    IF Len(s) = 1 THEN s[1]
    ELSE LET m == SeqMax(Tail(s)) IN IF s[1] >= m THEN s[1] ELSE m

\* the last k elements of s
LastK(s, k) == SubSeq(s, Len(s) - k + 1, Len(s))

Min2(a, b) == IF a <= b THEN a ELSE b

----------------------------------------------------------------------------
(* FPSCalculator, fps.py *)

FPSCalculator__init__(w) ==
    [window_size |-> w, frame_times |-> <<>>, frame_count |-> 0,
     start_time |-> None, last_frame_time |-> None]

\* collections.deque(maxlen=n).append(x): a full deque drops its oldest element
DequeAppend_NoEvict(dq, maxlen, x) == Append(dq, x)

DequeAppend(dq, maxlen, x) ==
    IF maxlen = 0 THEN <<>>
    ELSE IF Len(dq) = maxlen THEN Append(Tail(dq), x)
    ELSE Append(dq, x)

FPSCalculator_start_NoBaseline(c, t) ==
    [c EXCEPT !.start_time = Some(t), !.last_frame_time = None,
              !.frame_count = 0, !.frame_times = <<>>]

FPSCalculator_start(c, t) ==
    [c EXCEPT !.start_time = Some(t), !.last_frame_time = Some(t),
              !.frame_count = 0, !.frame_times = <<>>]

FPSCalculator_update(c, t) ==
    [c EXCEPT !.frame_times =
                  IF c.last_frame_time # None
                  THEN DequeAppend(@, c.window_size, t - Val(c.last_frame_time))
                  ELSE @,
              !.last_frame_time = Some(t),
              !.frame_count = @ + 1]

FPSCalculator_get_fps(c) ==
    IF c.frame_times = <<>> THEN Zero
    ELSE LET avg_frame_time == Frac(Sum(c.frame_times), Len(c.frame_times))
         IN  IF avg_frame_time[1] > 0
             THEN Frac(avg_frame_time[2], avg_frame_time[1])
             ELSE Zero

FPSCalculator_get_average_fps_PerWindow(c, t) ==
    IF c.start_time = None \/ c.frame_count = 0 THEN Zero
    ELSE LET elapsed == t - Val(c.start_time)
         IN  IF elapsed > 0 THEN Frac(Len(c.frame_times), elapsed) ELSE Zero

FPSCalculator_get_average_fps(c, t) ==
    IF c.start_time = None \/ c.frame_count = 0 THEN Zero
    ELSE LET elapsed == t - Val(c.start_time)
         IN  IF elapsed > 0 THEN Frac(c.frame_count, elapsed) ELSE Zero

FPSCalculator_get_frame_count(c) == c.frame_count

FPSCalculator_get_elapsed_time(c, t) ==
    IF c.start_time = None THEN Zero ELSE Num(t - Val(c.start_time))

FPSCalculator_reset_ReadsClock(c, t) ==
    [c EXCEPT !.frame_times = <<>>, !.frame_count = 0,
              !.start_time = Some(t), !.last_frame_time = Some(t)]

\* t is the clock at the call; reset() does not read it
FPSCalculator_reset(c, t) ==
    [c EXCEPT !.frame_times = <<>>, !.frame_count = 0,
              !.start_time = None, !.last_frame_time = None]

----------------------------------------------------------------------------
(* InferenceTimer, fps.py *)

InferenceTimer__init__ == [start_time |-> None, times |-> <<>>]

InferenceTimer_start(tm, t) == [tm EXCEPT !.start_time = Some(t)]

InferenceTimer_stop_NoGuard(tm, t) ==
    [tm EXCEPT !.times = Append(@, IF tm.start_time = None THEN 0
                                   ELSE t - Val(tm.start_time)),
               !.start_time = None]

InferenceTimer_stop(tm, t) ==
    IF tm.start_time = None THEN tm
    ELSE [tm EXCEPT !.times = Append(@, t - Val(tm.start_time)),
                    !.start_time = None]

\* the value stop() returns
InferenceTimer_stop_result(tm, t) ==
    IF tm.start_time = None THEN Zero ELSE Num(t - Val(tm.start_time))

InferenceTimer_get_last_time(tm) ==
    IF tm.times = <<>> THEN None ELSE Num(tm.times[Len(tm.times)])

InferenceTimer_get_average(tm) ==
    IF tm.times = <<>> THEN Zero ELSE Frac(Sum(tm.times), Len(tm.times))

InferenceTimer_get_min(tm) ==
    IF tm.times = <<>> THEN None ELSE Num(SeqMin(tm.times))

InferenceTimer_get_max_Last(tm) ==
    IF tm.times = <<>> THEN None ELSE Num(tm.times[Len(tm.times)])

InferenceTimer_get_max(tm) ==
    IF tm.times = <<>> THEN None ELSE Num(SeqMax(tm.times))

InferenceTimer_get_count(tm) == Len(tm.times)

InferenceTimer_reset(tm) == [tm EXCEPT !.start_time = None, !.times = <<>>]

----------------------------------------------------------------------------
(* Constants of run_yolov8.py; one clock tick is one second *)

WINDOW_SIZE == 30
LOG_EVERY_CAMERA == 30
LOG_EVERY_IMAGE == 10
SLEEP_TICKS == 1
JOIN_TIMEOUT_TICKS == 2

(* Bounds of the run *)

MaxRunTime == 1
MaxCameraFrames == 2
MaxIterations == 11

----------------------------------------------------------------------------
(* BenchmarkLogger, logger.py.  A metric record is a function from the keys *)
(* present to their values; 'k in m' is k \in DOMAIN m.                     *)

\* list.append: one atomic step of the interpreter
ListAppend_Overwrite(buf, rec) ==
    IF buf = <<>> THEN <<rec>> ELSE [buf EXCEPT ![Len(buf)] = rec]

ListAppend(buf, rec) == Append(buf, rec)

\* the record log_system_snapshot builds from a snapshot
SnapshotMetric(snap) ==
    LET metric_data ==
            [timestamp |-> snap.timestamp,
             cpu_percent |-> snap.cpu.overall,
             memory_percent |-> snap.memory.percent,
             temperature |-> snap.temperature,
             load_1min |-> snap.load.load_1min]
    IN  IF snap.throttling # None
        THEN LET throttle == Val(snap.throttling)
             IN  metric_data @@
                 ("throttled" :> (throttle.throttled_now \/ throttle.under_voltage_now))
        ELSE metric_data

\* the record log_inference builds; t is datetime.now().timestamp()
InferenceMetric(frame_num, inference_time, fps, t) ==
    [timestamp |-> t, frame |-> frame_num, inference_time |-> inference_time,
     fps |-> fps]

----------------------------------------------------------------------------
(* YOLOv8Benchmark._write_summary, run_yolov8.py *)

RECURSIVE FieldValues_AbsentAsZero(_, _)
FieldValues_AbsentAsZero(buf, k) ==
    IF buf = <<>> THEN <<>>
    ELSE <<IF k \in DOMAIN Head(buf) THEN Head(buf)[k] ELSE Zero>>
         \o FieldValues_AbsentAsZero(Tail(buf), k)

\* [m.get(k) for m in buf if k in m]
RECURSIVE FieldValues(_, _)
FieldValues(buf, k) ==
    IF buf = <<>> THEN <<>>
    ELSE IF k \in DOMAIN Head(buf)
         THEN <<Head(buf)[k]>> \o FieldValues(Tail(buf), k)
         ELSE FieldValues(Tail(buf), k)

\* [m.get('temperature') for m in buf if m.get('temperature') is not None]
RECURSIVE TempValues(_)
TempValues(buf) ==
    IF buf = <<>> THEN <<>>
    ELSE IF "temperature" \in DOMAIN Head(buf) /\ Head(buf).temperature # None
         THEN <<Val(Head(buf).temperature)>> \o TempValues(Tail(buf))
         ELSE TempValues(Tail(buf))

\* sum(1 for m in buf if m.get('throttled', False))
RECURSIVE ThrottleCount(_)
ThrottleCount(buf) ==
    IF buf = <<>> THEN 0
    ELSE (IF "throttled" \in DOMAIN Head(buf) /\ Head(buf).throttled THEN 1 ELSE 0)
         + ThrottleCount(Tail(buf))

RECURSIVE FracSeqMin(_)
FracSeqMin(s) ==
    IF Len(s) = 1 THEN s[1]
    ELSE LET m == FracSeqMin(Tail(s)) IN IF FracLe(s[1], m) THEN s[1] ELSE m

RECURSIVE FracSeqMax(_)
FracSeqMax(s) ==
    IF Len(s) = 1 THEN s[1]
    ELSE LET m == FracSeqMax(Tail(s)) IN IF FracLe(m, s[1]) THEN s[1] ELSE m

\* sum(xs) / len(xs) if xs else 0
MeanOrZero(xs) == IF xs # <<>> THEN FracDivInt(FracSum(xs), Len(xs)) ELSE Zero

MinOrZero(xs) == IF xs # <<>> THEN FracSeqMin(xs) ELSE Zero

MaxOrZero(xs) == IF xs # <<>> THEN FracSeqMax(xs) ELSE Zero

InitialTemp_Last(temp_values) == temp_values[Len(temp_values)]

\* initial_temp = temp_values[0] if temp_values else 0
InitialTemp(temp_values) == IF temp_values # <<>> THEN temp_values[1] ELSE Zero

\* the six lists _write_summary collects from the buffer
SummaryLists(buf) ==
    [inference_times |-> FieldValues(buf, "inference_time"),
     fps_values |-> FieldValues(buf, "fps"),
     cpu_values |-> FieldValues(buf, "cpu_percent"),
     memory_values |-> FieldValues(buf, "memory_percent"),
     temp_values |-> TempValues(buf),
     throttle_count |-> ThrottleCount(buf)]

\* the summary dict, from the six lists collected from the buffer (l), the
\* FPSCalculator c and the clock t read by get_average_fps()
SummaryDict(l, c, t) ==
    LET base ==
            [total_frames |-> FPSCalculator_get_frame_count(c),
             avg_fps |-> FPSCalculator_get_average_fps(c, t),
             min_fps |-> MinOrZero(l.fps_values),
             max_fps |-> MaxOrZero(l.fps_values),
             avg_inference_ms |-> FracMulInt(MeanOrZero(l.inference_times), 1000),
             min_inference_ms |-> FracMulInt(MinOrZero(l.inference_times), 1000),
             max_inference_ms |-> FracMulInt(MaxOrZero(l.inference_times), 1000),
             avg_cpu |-> MeanOrZero(l.cpu_values),
             max_cpu |-> MaxOrZero(l.cpu_values),
             avg_memory |-> MeanOrZero(l.memory_values),
             max_memory |-> MaxOrZero(l.memory_values),
             throttle_events |-> l.throttle_count]
    IN  IF l.temp_values # <<>>
        THEN LET initial_temp == InitialTemp(l.temp_values)
             IN  base @@
                 [avg_temperature |-> MeanOrZero(l.temp_values),
                  max_temperature |-> FracSeqMax(l.temp_values),
                  temp_rise |-> FracSub(FracSeqMax(l.temp_values), initial_temp)]
        ELSE base

----------------------------------------------------------------------------
(* Values of the run's variables *)

NoLocals ==
    [start_time |-> None, frame_count |-> 0, inference_time |-> Zero, fps |-> Zero,
     inference_times |-> <<>>, fps_values |-> <<>>, cpu_values |-> <<>>,
     memory_values |-> <<>>, temp_values |-> <<>>, throttle_count |-> 0]

\* no logger constructed
NoLoggers == loggers = <<>>

\* no SystemMonitor call made
NoMonitorCalls == sensors = None /\ attempted = <<>>

\* no comparator used
NoComparator == comparator = None /\ outputs = None

NoCaptures == captures = <<>>

NoAux == NoLoggers /\ NoMonitorCalls /\ NoComparator /\ NoCaptures

\* the run's variables while no benchmark is running
NoRun ==
    /\ pc = "none"
    /\ mode = "none"
    /\ limit = 0
    /\ cap = "none"
    /\ monitoring_active = FALSE
    /\ sampler_pc = "none"
    /\ snapshot = None
    /\ wake_at = 0
    /\ join_deadline = 0
    /\ metrics_buffer = <<>>
    /\ log_file = <<>>
    /\ loc = NoLocals
    /\ summary = None
    /\ json_file = None
    /\ interrupted = FALSE
    /\ main_appended = <<>>
    /\ sampler_appended = <<>>
    /\ calls = [write_summary |-> 0, save_json |-> 0]
    /\ is_raspberry_pi = FALSE
    /\ NoAux

----------------------------------------------------------------------------
(* The clock.  Two consecutive time.time() readings may be equal. *)

Tick ==
    /\ now < MaxTime
    /\ now' = now + 1
    /\ UNCHANGED <<fps_calc, inference_timer, unitVars, runVars>>

----------------------------------------------------------------------------
(* SpecFPS: a client calling the methods of one FPSCalculator in any order *)

InitFPS ==
    /\ now = 0
    /\ \E w \in 1..MaxWindow : fps_calc = FPSCalculator__init__(w)
    /\ inference_timer = InferenceTimer__init__
    /\ op = "__init__"
    /\ ret = None
    /\ intervals = <<>>
    /\ since_reset = FALSE
    /\ durs = <<>>
    /\ NoRun

FPSStart ==
    /\ fps_calc' = FPSCalculator_start(fps_calc, now)
    /\ op' = "start"
    /\ ret' = None
    /\ intervals' = <<>>
    /\ since_reset' = FALSE
    /\ UNCHANGED <<now, inference_timer, durs>>
    /\ UNCHANGED runVars

FPSUpdate ==
    /\ fps_calc.frame_count < MaxFrames
    /\ fps_calc' = FPSCalculator_update(fps_calc, now)
    /\ op' = "update"
    /\ ret' = FPSCalculator_get_fps(fps_calc')
    /\ intervals' = IF fps_calc.last_frame_time # None
                    THEN Append(intervals, now - Val(fps_calc.last_frame_time))
                    ELSE intervals
    /\ since_reset' = FALSE
    /\ UNCHANGED <<now, inference_timer, durs>>
    /\ UNCHANGED runVars

FPSGetFps ==
    /\ op' = "get_fps"
    /\ ret' = FPSCalculator_get_fps(fps_calc)
    /\ UNCHANGED <<now, fps_calc, inference_timer, intervals, since_reset, durs>>
    /\ UNCHANGED runVars

FPSGetAverageFps ==
    /\ op' = "get_average_fps"
    /\ ret' = FPSCalculator_get_average_fps(fps_calc, now)
    /\ UNCHANGED <<now, fps_calc, inference_timer, intervals, since_reset, durs>>
    /\ UNCHANGED runVars

FPSGetElapsedTime ==
    /\ op' = "get_elapsed_time"
    /\ ret' = FPSCalculator_get_elapsed_time(fps_calc, now)
    /\ UNCHANGED <<now, fps_calc, inference_timer, intervals, since_reset, durs>>
    /\ UNCHANGED runVars

FPSReset ==
    /\ fps_calc' = FPSCalculator_reset(fps_calc, now)
    /\ op' = "reset"
    /\ ret' = None
    /\ intervals' = <<>>
    /\ since_reset' = TRUE
    /\ UNCHANGED <<now, inference_timer, durs>>
    /\ UNCHANGED runVars

NextFPS ==
    \/ Tick
    \/ FPSStart
    \/ FPSUpdate
    \/ FPSGetFps
    \/ FPSGetAverageFps
    \/ FPSGetElapsedTime
    \/ FPSReset

SpecFPS == InitFPS /\ [][NextFPS]_vars

----------------------------------------------------------------------------
(* SpecTimer: a client calling the methods of one InferenceTimer in any order *)

InitTimer ==
    /\ now = 0
    /\ fps_calc = FPSCalculator__init__(1)
    /\ inference_timer = InferenceTimer__init__
    /\ op = "__init__"
    /\ ret = None
    /\ intervals = <<>>
    /\ since_reset = FALSE
    /\ durs = <<>>
    /\ NoRun

TimerStart ==
    /\ inference_timer' = InferenceTimer_start(inference_timer, now)
    /\ op' = "start"
    /\ ret' = None
    /\ UNCHANGED <<now, fps_calc, intervals, since_reset, durs>>
    /\ UNCHANGED runVars

\* stop() with a start() pending: one duration is measured and recorded
TimerStop ==
    /\ inference_timer.start_time # None
    /\ Len(inference_timer.times) < MaxTimes
    /\ inference_timer' = InferenceTimer_stop(inference_timer, now)
    /\ op' = "stop"
    /\ ret' = InferenceTimer_stop_result(inference_timer, now)
    /\ durs' = Append(durs, now - Val(inference_timer.start_time))
    /\ UNCHANGED <<now, fps_calc, intervals, since_reset>>
    /\ UNCHANGED runVars

\* stop() with no start() pending
TimerStopUnstarted ==
    /\ inference_timer.start_time = None
    /\ inference_timer' = InferenceTimer_stop(inference_timer, now)
    /\ op' = "stop_unstarted"
    /\ ret' = InferenceTimer_stop_result(inference_timer, now)
    /\ UNCHANGED <<now, fps_calc, intervals, since_reset, durs>>
    /\ UNCHANGED runVars

TimerGetAverage ==
    /\ op' = "get_average"
    /\ ret' = InferenceTimer_get_average(inference_timer)
    /\ UNCHANGED <<now, fps_calc, inference_timer, intervals, since_reset, durs>>
    /\ UNCHANGED runVars

TimerGetMin ==
    /\ op' = "get_min"
    /\ ret' = InferenceTimer_get_min(inference_timer)
    /\ UNCHANGED <<now, fps_calc, inference_timer, intervals, since_reset, durs>>
    /\ UNCHANGED runVars

TimerGetMax ==
    /\ op' = "get_max"
    /\ ret' = InferenceTimer_get_max(inference_timer)
    /\ UNCHANGED <<now, fps_calc, inference_timer, intervals, since_reset, durs>>
    /\ UNCHANGED runVars

TimerReset ==
    /\ inference_timer' = InferenceTimer_reset(inference_timer)
    /\ op' = "reset"
    /\ ret' = None
    /\ durs' = <<>>
    /\ UNCHANGED <<now, fps_calc, intervals, since_reset>>
    /\ UNCHANGED runVars

NextTimer ==
    \/ Tick
    \/ TimerStart
    \/ TimerStop
    \/ TimerStopUnstarted
    \/ TimerGetAverage
    \/ TimerGetMin
    \/ TimerGetMax
    \/ TimerReset

SpecTimer == InitTimer /\ [][NextTimer]_vars

----------------------------------------------------------------------------
(* Spec: one benchmark run of YOLOv8Benchmark, the main thread and the      *)
(* sampler thread interleaved.  The logger is constructed and write_header  *)
(* called before the first step.                                            *)

\* what the sensors can read while one snapshot is taken
NoThrottle ==
    [under_voltage_now |-> FALSE, freq_capped_now |-> FALSE, throttled_now |-> FALSE,
     soft_temp_limit_now |-> FALSE, under_voltage_occurred |-> FALSE,
     freq_capped_occurred |-> FALSE, throttled_occurred |-> FALSE,
     soft_temp_limit_occurred |-> FALSE]

\* what get_full_snapshot reads besides the clock: on a Raspberry Pi a temperature
\* and a throttling status, elsewhere neither
SensorReadings ==
    IF is_raspberry_pi
    THEN { [cpu |-> [overall |-> Num(60)], memory |-> [percent |-> Num(40)],
            load |-> [load_1min |-> Num(1)], temperature |-> Some(Num(50)),
            throttling |-> Some([NoThrottle EXCEPT !.throttled_now = TRUE,
                                                   !.throttled_occurred = TRUE])] }
    ELSE { [cpu |-> [overall |-> Num(20)], memory |-> [percent |-> Num(40)],
            load |-> [load_1min |-> Num(1)], temperature |-> None,
            throttling |-> None] }

Init ==
    /\ now = 0
    /\ fps_calc = FPSCalculator__init__(WINDOW_SIZE)
    /\ inference_timer = InferenceTimer__init__
    /\ op = "__init__"
    /\ ret = None
    /\ intervals = <<>>
    /\ since_reset = FALSE
    /\ durs = <<>>
    /\ pc = "open"
    /\ \/ mode = "camera" /\ limit \in 1..MaxRunTime
       \/ mode = "image" /\ limit \in {1, MaxIterations}
    /\ cap = "none"
    /\ monitoring_active = FALSE
    /\ sampler_pc = "none"
    /\ snapshot = None
    /\ wake_at = 0
    /\ join_deadline = 0
    /\ metrics_buffer = <<>>
    /\ log_file = <<"header">>
    /\ loc = NoLocals
    /\ summary = None
    /\ json_file = None
    /\ interrupted = FALSE
    /\ main_appended = <<>>
    /\ sampler_appended = <<>>
    /\ calls = [write_summary |-> 0, save_json |-> 0]
    /\ is_raspberry_pi \in BOOLEAN
    /\ NoAux

\* One tick is one second.  The statements between two blocking calls of the
\* main thread take no time at that resolution: the clock advances while the
\* main thread is inside cap.read() or session.run(), at most MaxRunTime ticks
\* in a run, and while it waits in monitor_thread.join(timeout=2.0), where the
\* end of the thread or the timeout ends the wait.
RunTick ==
    /\ \/ pc \in {"capture", "inference"} /\ now < MaxRunTime
       \/ pc = "join" /\ sampler_pc # "done" /\ now < join_deadline
    /\ now' = now + 1
    /\ UNCHANGED <<fps_calc, inference_timer, unitVars, runVars>>

OpenInput_MonitoringFirst ==
    /\ pc = "open"
    /\ monitoring_active' = TRUE
    /\ sampler_pc' = "check"
    /\ \E ok \in BOOLEAN :
          IF ok
          THEN /\ pc' = "fps_start"
               /\ cap' = IF mode = "camera" THEN "open" ELSE cap
          ELSE /\ pc' = "aborted"
               /\ cap' = cap
    /\ UNCHANGED <<now, fps_calc, inference_timer, unitVars, mode, limit,
                   snapshot, wake_at, join_deadline,
                   metrics_buffer, log_file, loc, summary, json_file, interrupted,
                   main_appended, sampler_appended, calls,
                   is_raspberry_pi, auxVars>>

\* cv2.VideoCapture(camera_index) / cv2.imread(image_path): on failure the run returns
OpenInput ==
    /\ pc = "open"
    /\ \E ok \in BOOLEAN :
          IF ok
          THEN /\ pc' = "start_monitoring"
               /\ cap' = IF mode = "camera" THEN "open" ELSE cap
          ELSE /\ pc' = "aborted"
               /\ cap' = cap
    /\ UNCHANGED <<now, fps_calc, inference_timer, unitVars, mode, limit,
                   monitoring_active, sampler_pc, snapshot, wake_at, join_deadline,
                   metrics_buffer, log_file, loc, summary, json_file, interrupted,
                   main_appended, sampler_appended, calls,
                   is_raspberry_pi, auxVars>>

StartMonitoring ==
    /\ pc = "start_monitoring"
    /\ monitoring_active' = TRUE
    /\ sampler_pc' = "check"
    /\ pc' = "fps_start"
    /\ UNCHANGED <<now, fps_calc, inference_timer, unitVars, mode, limit, cap, snapshot,
                   wake_at, join_deadline, metrics_buffer, log_file, loc, summary,
                   json_file, interrupted, main_appended, sampler_appended, calls,
                   is_raspberry_pi, auxVars>>

\* self.fps_calc.start()
FpsStart ==
    /\ pc = "fps_start"
    /\ fps_calc' = FPSCalculator_start(fps_calc, now)
    /\ pc' = "loop_init"
    /\ UNCHANGED <<now, inference_timer, unitVars, mode, limit, cap, monitoring_active,
                   sampler_pc, snapshot, wake_at, join_deadline, metrics_buffer,
                   log_file, loc, summary, json_file, interrupted, main_appended,
                   sampler_appended, calls,
                   is_raspberry_pi, auxVars>>

\* start_time = time.time(); frame_count = 0 (camera); the range(num_iterations)
\* iterator (image), whose i + 1 is kept in loc.frame_count
LoopInit ==
    /\ pc = "loop_init"
    /\ loc' = [loc EXCEPT !.start_time = Some(now), !.frame_count = 0]
    /\ pc' = "loop"
    /\ UNCHANGED <<now, fps_calc, inference_timer, unitVars, mode, limit, cap,
                   monitoring_active, sampler_pc, snapshot, wake_at, join_deadline,
                   metrics_buffer, log_file, summary, json_file, interrupted,
                   main_appended, sampler_appended, calls,
                   is_raspberry_pi, auxVars>>

\* while time.time() - start_time < duration / for i in range(num_iterations)
LoopContinues ==
    IF mode = "camera"
    THEN now - Val(loc.start_time) < limit
    ELSE loc.frame_count < limit

\* the loop condition; in image mode the body starts with inference_timer.start()
LoopCheck ==
    /\ pc = "loop"
    /\ IF ~LoopContinues
       THEN pc' = "finally" /\ UNCHANGED inference_timer
       ELSE IF mode = "camera"
            THEN /\ loc.frame_count < MaxCameraFrames
                 /\ pc' = "capture"
                 /\ UNCHANGED inference_timer
            ELSE /\ pc' = "inference"
                 /\ inference_timer' = InferenceTimer_start(inference_timer, now)
    /\ UNCHANGED <<now, fps_calc, unitVars, mode, limit, cap, monitoring_active,
                   sampler_pc, snapshot, wake_at, join_deadline, metrics_buffer,
                   log_file, loc, summary, json_file, interrupted, main_appended,
                   sampler_appended, calls,
                   is_raspberry_pi, auxVars>>

\* ret, frame = cap.read() gave frame_ok; if not ret: continue; else preprocess
\* and inference_timer.start()
CaptureGave_InfersAnyway(frame_ok) ==
    /\ pc' = "inference"
    /\ inference_timer' = InferenceTimer_start(inference_timer, now)

CaptureGave(frame_ok) ==
    IF frame_ok
    THEN /\ pc' = "inference"
         /\ inference_timer' = InferenceTimer_start(inference_timer, now)
    ELSE /\ pc' = "loop"
         /\ UNCHANGED inference_timer

Capture ==
    /\ pc = "capture"
    /\ \E frame_ok \in BOOLEAN : CaptureGave(frame_ok)
    /\ UNCHANGED <<now, fps_calc, unitVars, mode, limit, cap, monitoring_active,
                   sampler_pc, snapshot, wake_at, join_deadline, metrics_buffer,
                   log_file, loc, summary, json_file, interrupted, main_appended,
                   sampler_appended, calls,
                   is_raspberry_pi, auxVars>>

\* outputs = self._inference(input_tensor); inference_time = self.inference_timer.stop()
InferenceDone ==
    /\ pc = "inference"
    /\ inference_timer' = InferenceTimer_stop(inference_timer, now)
    /\ loc' = [loc EXCEPT !.inference_time = InferenceTimer_stop_result(inference_timer, now)]
    /\ pc' = "update"
    /\ UNCHANGED <<now, fps_calc, unitVars, mode, limit, cap, monitoring_active,
                   sampler_pc, snapshot, wake_at, join_deadline, metrics_buffer,
                   log_file, summary, json_file, interrupted, main_appended,
                   sampler_appended, calls,
                   is_raspberry_pi, auxVars>>

LogEvery == IF mode = "camera" THEN LOG_EVERY_CAMERA ELSE LOG_EVERY_IMAGE

\* fps = self.fps_calc.update(); frame_count += 1; the test of the logging period
UpdateFps ==
    /\ pc = "update"
    /\ fps_calc' = FPSCalculator_update(fps_calc, now)
    /\ loc' = [loc EXCEPT !.fps = FPSCalculator_get_fps(fps_calc'),
                          !.frame_count = @ + 1]
    /\ pc' = IF loc'.frame_count % LogEvery = 0 THEN "log" ELSE "loop"
    /\ UNCHANGED <<now, inference_timer, unitVars, mode, limit, cap, monitoring_active,
                   sampler_pc, snapshot, wake_at, join_deadline, metrics_buffer,
                   log_file, summary, json_file, interrupted, main_appended,
                   sampler_appended, calls,
                   is_raspberry_pi, auxVars>>

\* self.logger.log_inference(frame_count, inference_time, fps), which calls
\* log_metric: the append and one line of the log file
LogInference ==
    /\ pc = "log"
    /\ LET metric_data ==
               InferenceMetric(loc.frame_count, loc.inference_time, loc.fps, now)
       IN  /\ metrics_buffer' = ListAppend(metrics_buffer, metric_data)
           /\ main_appended' = Append(main_appended, metric_data)
    /\ log_file' = Append(log_file, "metric")
    /\ pc' = "loop"
    /\ UNCHANGED <<now, fps_calc, inference_timer, unitVars, mode, limit, cap,
                   monitoring_active, sampler_pc, snapshot, wake_at, join_deadline,
                   loc, summary, json_file, interrupted, sampler_appended, calls,
                   is_raspberry_pi, auxVars>>

\* the statements inside try:
TryPcs == {"loop", "capture", "inference", "update", "log"}

KeyboardInterrupt_NoFinally ==
    /\ pc \in TryPcs
    /\ ~interrupted
    /\ interrupted' = TRUE
    /\ pc' = "done"
    /\ UNCHANGED <<now, fps_calc, inference_timer, unitVars, mode, limit, cap,
                   monitoring_active, sampler_pc, snapshot, wake_at, join_deadline,
                   metrics_buffer, log_file, loc, summary, json_file, main_appended,
                   sampler_appended, calls,
                   is_raspberry_pi, auxVars>>

\* Ctrl-C while the main thread is inside try: except KeyboardInterrupt, then finally
KeyboardInterrupt ==
    /\ pc \in TryPcs
    /\ ~interrupted
    /\ interrupted' = TRUE
    /\ pc' = "finally"
    /\ UNCHANGED <<now, fps_calc, inference_timer, unitVars, mode, limit, cap,
                   monitoring_active, sampler_pc, snapshot, wake_at, join_deadline,
                   metrics_buffer, log_file, loc, summary, json_file, main_appended,
                   sampler_appended, calls,
                   is_raspberry_pi, auxVars>>

\* _stop_monitoring: the flag is cleared, then monitor_thread.join(timeout=2.0) begins
StopMonitoring ==
    /\ pc = "finally"
    /\ monitoring_active' = FALSE
    /\ join_deadline' = now + JOIN_TIMEOUT_TICKS
    /\ pc' = "join"
    /\ UNCHANGED <<now, fps_calc, inference_timer, unitVars, mode, limit, cap,
                   sampler_pc, snapshot, wake_at, metrics_buffer, log_file, loc,
                   summary, json_file, interrupted, main_appended, sampler_appended,
                   calls,
                   is_raspberry_pi, auxVars>>

\* join(timeout=2.0) returns when the thread has ended or the timeout has passed
JoinReturns == sampler_pc = "done" \/ now >= join_deadline

Join ==
    /\ pc = "join"
    /\ JoinReturns
    /\ join_deadline' = 0
    /\ pc' = IF mode = "camera" THEN "release" ELSE "summary_inference"
    /\ UNCHANGED <<now, fps_calc, inference_timer, unitVars, mode, limit, cap,
                   monitoring_active, sampler_pc, snapshot, wake_at,
                   metrics_buffer, log_file, loc, summary, json_file, interrupted,
                   main_appended, sampler_appended, calls,
                   is_raspberry_pi, auxVars>>

\* cap.release()
ReleaseCamera ==
    /\ pc = "release"
    /\ cap' = "released"
    /\ pc' = "summary_inference"
    /\ UNCHANGED <<now, fps_calc, inference_timer, unitVars, mode, limit,
                   monitoring_active, sampler_pc, snapshot, wake_at, join_deadline,
                   metrics_buffer, log_file, loc, summary, json_file, interrupted,
                   main_appended, sampler_appended, calls,
                   is_raspberry_pi, auxVars>>

\* _write_summary reads metrics_buffer in six passes, one list comprehension each
SummaryPass(at, next, field, value) ==
    /\ pc = at
    /\ loc' = [loc EXCEPT ![field] = value]
    /\ pc' = next
    /\ UNCHANGED <<now, fps_calc, inference_timer, unitVars, mode, limit, cap,
                   monitoring_active, sampler_pc, snapshot, wake_at, join_deadline,
                   metrics_buffer, log_file, summary, json_file, interrupted,
                   main_appended, sampler_appended, calls,
                   is_raspberry_pi, auxVars>>

CollectInferenceTimes ==
    SummaryPass("summary_inference", "summary_fps", "inference_times",
                FieldValues(metrics_buffer, "inference_time"))

CollectFpsValues ==
    SummaryPass("summary_fps", "summary_cpu", "fps_values",
                FieldValues(metrics_buffer, "fps"))

CollectCpuValues ==
    SummaryPass("summary_cpu", "summary_memory", "cpu_values",
                FieldValues(metrics_buffer, "cpu_percent"))

CollectMemoryValues ==
    SummaryPass("summary_memory", "summary_temp", "memory_values",
                FieldValues(metrics_buffer, "memory_percent"))

CollectTempValues ==
    SummaryPass("summary_temp", "summary_throttle", "temp_values",
                TempValues(metrics_buffer))

CountThrottle ==
    SummaryPass("summary_throttle", "write_summary", "throttle_count",
                ThrottleCount(metrics_buffer))

\* summary = {...}; self.logger.write_summary(summary)
WriteSummary ==
    /\ pc = "write_summary"
    /\ summary' = Some(SummaryDict(loc, fps_calc, now))
    /\ log_file' = Append(log_file, "summary")
    /\ calls' = [calls EXCEPT !.write_summary = @ + 1]
    /\ pc' = "save_json"
    /\ UNCHANGED <<now, fps_calc, inference_timer, unitVars, mode, limit, cap,
                   monitoring_active, sampler_pc, snapshot, wake_at, join_deadline,
                   metrics_buffer, loc, json_file, interrupted, main_appended,
                   sampler_appended,
                   is_raspberry_pi, auxVars>>

\* self.logger.save_json()
SaveJson ==
    /\ pc = "save_json"
    /\ json_file' = Some([model |-> "yolov8", metrics |-> metrics_buffer,
                          summary |-> summary])
    /\ calls' = [calls EXCEPT !.save_json = @ + 1]
    /\ pc' = "done"
    /\ UNCHANGED <<now, fps_calc, inference_timer, unitVars, mode, limit, cap,
                   monitoring_active, sampler_pc, snapshot, wake_at, join_deadline,
                   metrics_buffer, log_file, loc, summary, interrupted, main_appended,
                   sampler_appended,
                   is_raspberry_pi, auxVars>>

(* monitor_loop, the sampler thread.  The return of time.sleep(1.0) changes  *)
(* nothing another thread can see, so it is one step with the test of the   *)
(* flag that follows it; the thread starts as if a sleep had just ended.    *)

SamplerCheck_KeepsWaiting ==
    /\ sampler_pc = "check"
    /\ now >= wake_at
    /\ IF monitoring_active
       THEN /\ sampler_pc' = "snapshot"
            /\ snapshot' = Some(now)
       ELSE /\ sampler_pc' = "check"
            /\ UNCHANGED snapshot
    /\ wake_at' = 0
    /\ UNCHANGED <<now, fps_calc, inference_timer, unitVars, pc, mode, limit, cap,
                   monitoring_active, join_deadline, metrics_buffer, log_file,
                   loc, summary, json_file, interrupted, main_appended,
                   sampler_appended, calls, is_raspberry_pi, auxVars>>

\* (time.sleep(1.0) returns;) while self.monitoring_active: ...
\* get_full_snapshot() reads time.time() first
SamplerCheck ==
    /\ sampler_pc = "check"
    /\ now >= wake_at
    /\ IF monitoring_active
       THEN /\ sampler_pc' = "snapshot"
            /\ snapshot' = Some(now)
       ELSE /\ sampler_pc' = "done"
            /\ UNCHANGED snapshot
    /\ wake_at' = 0
    /\ UNCHANGED <<now, fps_calc, inference_timer, unitVars, pc, mode, limit, cap,
                   monitoring_active, join_deadline, metrics_buffer, log_file,
                   loc, summary, json_file, interrupted, main_appended,
                   sampler_appended, calls, is_raspberry_pi, auxVars>>

\* the sensors are read, get_full_snapshot returns, and log_system_snapshot appends
\* the record; then time.sleep(1.0) begins
SamplerLog ==
    /\ sampler_pc = "snapshot"
    /\ \E r \in SensorReadings :
          LET metric_data == SnapshotMetric(r @@ [timestamp |-> Val(snapshot)])
          IN  /\ metrics_buffer' = ListAppend(metrics_buffer, metric_data)
              /\ sampler_appended' = Append(sampler_appended, metric_data)
    /\ snapshot' = None
    /\ wake_at' = now + SLEEP_TICKS
    /\ sampler_pc' = "check"
    /\ UNCHANGED <<now, fps_calc, inference_timer, unitVars, pc, mode, limit, cap,
                   monitoring_active, join_deadline, log_file, loc, summary, json_file,
                   interrupted, main_appended, calls, is_raspberry_pi, auxVars>>

Next ==
    \/ RunTick
    \/ OpenInput
    \/ StartMonitoring
    \/ FpsStart
    \/ LoopInit
    \/ LoopCheck
    \/ Capture
    \/ InferenceDone
    \/ UpdateFps
    \/ LogInference
    \/ KeyboardInterrupt
    \/ StopMonitoring
    \/ Join
    \/ ReleaseCamera
    \/ CollectInferenceTimes
    \/ CollectFpsValues
    \/ CollectCpuValues
    \/ CollectMemoryValues
    \/ CollectTempValues
    \/ CountThrottle
    \/ WriteSummary
    \/ SaveJson
    \/ SamplerCheck
    \/ SamplerLog

Spec == Init /\ [][Next]_vars

----------------------------------------------------------------------------
(* SpecLogger: one BenchmarkLogger after write_header, fed by log_metric,   *)
(* log_inference and log_system_snapshot in any order from one thread, and  *)
(* summarised once by _write_summary.  The clock stands still: every record *)
(* carries the same timestamp.                                              *)

MaxRecords == 3

\* dicts a caller hands to log_metric itself
LogMetricInputs ==
    { [timestamp |-> now],
      [timestamp |-> now, fps |-> Num(10)],
      [timestamp |-> now, cpu_percent |-> Num(30), temperature |-> Some(Num(45))] }

\* arguments of log_inference
LogInferenceInputs ==
    { [frame_num |-> 10, inference_time |-> Num(1), fps |-> Frac(1, 2)],
      [frame_num |-> 20, inference_time |-> Num(3), fps |-> Frac(1, 2)] }

\* snapshots get_full_snapshot can return
SnapshotInputs ==
    { [timestamp |-> now, cpu |-> [overall |-> c], memory |-> [percent |-> Num(40)],
       load |-> [load_1min |-> Num(1)], temperature |-> t, throttling |-> th] :
        c \in {Num(20), Num(60)},
        t \in {None, Some(Num(40)), Some(Num(50)), Some(Num(60))},
        th \in {None, Some([NoThrottle EXCEPT !.under_voltage_now = TRUE])} }

InitLogger ==
    /\ now = 0
    /\ fps_calc = FPSCalculator__init__(WINDOW_SIZE)
    /\ inference_timer = InferenceTimer__init__
    /\ op = "write_header"
    /\ ret = None
    /\ intervals = <<>>
    /\ since_reset = FALSE
    /\ durs = <<>>
    /\ pc = "none"
    /\ mode = "none"
    /\ limit = 0
    /\ cap = "none"
    /\ monitoring_active = FALSE
    /\ sampler_pc = "none"
    /\ snapshot = None
    /\ wake_at = 0
    /\ join_deadline = 0
    /\ metrics_buffer = <<>>
    /\ log_file = <<"header">>
    /\ loc = NoLocals
    /\ summary = None
    /\ json_file = None
    /\ interrupted = FALSE
    /\ main_appended = <<>>
    /\ sampler_appended = <<>>
    /\ calls = [write_summary |-> 0, save_json |-> 0]
    /\ is_raspberry_pi = FALSE
    /\ NoAux

loggerFrame ==
    <<now, fps_calc, inference_timer, ret, intervals, since_reset, durs, pc, mode,
      limit, cap, monitoring_active, sampler_pc, snapshot, wake_at, join_deadline,
      interrupted, main_appended, sampler_appended, is_raspberry_pi, auxVars>>

\* log_metric(metric_data): the append and one line of the log file
LogMetric ==
    /\ summary = None
    /\ Len(metrics_buffer) < MaxRecords
    /\ \E metric_data \in LogMetricInputs :
          metrics_buffer' = ListAppend(metrics_buffer, metric_data)
    /\ log_file' = Append(log_file, "metric")
    /\ op' = "log_metric"
    /\ UNCHANGED <<loggerFrame, loc, summary, json_file, calls>>

\* log_inference(frame_num, inference_time, fps), which ends in log_metric
LogInferenceCall ==
    /\ summary = None
    /\ Len(metrics_buffer) < MaxRecords
    /\ \E a \in LogInferenceInputs :
          metrics_buffer' =
              ListAppend(metrics_buffer,
                         InferenceMetric(a.frame_num, a.inference_time, a.fps, now))
    /\ log_file' = Append(log_file, "metric")
    /\ op' = "log_inference"
    /\ UNCHANGED <<loggerFrame, loc, summary, json_file, calls>>

\* log_system_snapshot(snapshot): the append only, nothing is written to the log
LogSystemSnapshot ==
    /\ summary = None
    /\ Len(metrics_buffer) < MaxRecords
    /\ \E snap \in SnapshotInputs :
          metrics_buffer' = ListAppend(metrics_buffer, SnapshotMetric(snap))
    /\ op' = "log_system_snapshot"
    /\ UNCHANGED <<loggerFrame, log_file, loc, summary, json_file, calls>>

\* _write_summary(): the six passes, the summary dict, write_summary and save_json
LoggerWriteSummary ==
    /\ summary = None
    /\ LET lists == SummaryLists(metrics_buffer)
           l == [k \in DOMAIN loc |->
                    IF k \in DOMAIN lists THEN lists[k] ELSE loc[k]]
           s == Some(SummaryDict(l, fps_calc, now))
       IN  /\ loc' = l
           /\ summary' = s
           /\ json_file' = Some([model |-> "yolov8", metrics |-> metrics_buffer,
                                 summary |-> s])
    /\ log_file' = Append(log_file, "summary")
    /\ calls' = [write_summary |-> calls.write_summary + 1,
                 save_json |-> calls.save_json + 1]
    /\ op' = "_write_summary"
    /\ UNCHANGED <<loggerFrame, metrics_buffer>>

NextLogger ==
    \/ LogMetric
    \/ LogInferenceCall
    \/ LogSystemSnapshot
    \/ LoggerWriteSummary

SpecLogger == InitLogger /\ [][NextLogger]_vars

----------------------------------------------------------------------------
(* SpecPaths: BenchmarkLogger instances constructed one after another while *)
(* the clock runs.  datetime.now() is the clock's second and a microsecond  *)
(* part; the file name keeps what strftime('%Y-%m-%d_%H-%M-%S') prints.     *)

MaxLoggers == 2

MODEL_NAMES == {"yolov8", "yolov11"}

\* microsecond parts datetime.now() can show within one second
Microseconds == {0, 500000}

\* datetime.strftime('%Y-%m-%d_%H-%M-%S'): date and time to the whole second
Strftime(t) == t.sec

\* BenchmarkLogger(model_name, log_dir) constructed when datetime.now() is t
BenchmarkLogger__init__(model_name, log_dir, t) ==
    LET timestamp == Strftime(t)
    IN  [model_name |-> model_name,
         log_dir |-> <<log_dir, model_name>>,
         log_path |-> <<log_dir, model_name, model_name, timestamp, "log">>,
         json_path |-> <<log_dir, model_name, model_name, timestamp, "json">>]

InitPaths ==
    /\ now = 0
    /\ fps_calc = FPSCalculator__init__(WINDOW_SIZE)
    /\ inference_timer = InferenceTimer__init__
    /\ op = "none"
    /\ ret = None
    /\ intervals = <<>>
    /\ since_reset = FALSE
    /\ durs = <<>>
    /\ NoRun

LoggerConstruct ==
    /\ Len(loggers) < MaxLoggers
    /\ \E model_name \in MODEL_NAMES, usec \in Microseconds :
          loggers' = Append(loggers,
                            BenchmarkLogger__init__(model_name, "logs",
                                                    [sec |-> now, usec |-> usec]))
    /\ op' = "BenchmarkLogger"
    /\ UNCHANGED <<now, fps_calc, inference_timer, ret, intervals, since_reset, durs,
                   pc, mode, limit, cap, monitoring_active, sampler_pc, snapshot,
                   wake_at, join_deadline, metrics_buffer, log_file, loc, summary,
                   json_file, interrupted, main_appended, sampler_appended, calls,
                   is_raspberry_pi, sensors, attempted, comparator, outputs,
                   captures>>

NextPaths ==
    \/ Tick
    \/ LoggerConstruct

SpecPaths == InitPaths /\ [][NextPaths]_vars

----------------------------------------------------------------------------
(* SystemMonitor, monitor.py.  A str is the sequence of its characters.  Of *)
(* the inputs float() and int(, 16) accept, the parsers below take digits   *)
(* with at most one '.', and hex digits after an optional 0x; signs,        *)
(* exponents and underscores are in no output the model feeds them, and     *)
(* anything else is a ValueError, given as None.                            *)

Whitespace == {" ", "\n", "\t"}

RECURSIVE LStrip(_)
LStrip(s) == IF s # <<>> /\ Head(s) \in Whitespace THEN LStrip(Tail(s)) ELSE s

RECURSIVE RStrip(_)
RStrip(s) ==
    IF s # <<>> /\ s[Len(s)] \in Whitespace THEN RStrip(SubSeq(s, 1, Len(s) - 1)) ELSE s

\* str.strip()
Strip(s) == RStrip(LStrip(s))

\* str.split(sep) for a one-character sep: the pieces between the separators
RECURSIVE Split(_, _)
Split(s, sep) ==
    IF \A i \in DOMAIN s : s[i] # sep THEN <<s>>
    ELSE LET i == CHOOSE j \in DOMAIN s :
                      s[j] = sep /\ \A k \in 1..(j - 1) : s[k] # sep
         IN  <<SubSeq(s, 1, i - 1)>> \o Split(SubSeq(s, i + 1, Len(s)), sep)

DecDigit ==
    ("0" :> 0) @@ ("1" :> 1) @@ ("2" :> 2) @@ ("3" :> 3) @@ ("4" :> 4) @@
    ("5" :> 5) @@ ("6" :> 6) @@ ("7" :> 7) @@ ("8" :> 8) @@ ("9" :> 9)

HexDigit ==
    DecDigit @@
    ("a" :> 10) @@ ("b" :> 11) @@ ("c" :> 12) @@ ("d" :> 13) @@ ("e" :> 14) @@
    ("f" :> 15) @@ ("A" :> 10) @@ ("B" :> 11) @@ ("C" :> 12) @@ ("D" :> 13) @@
    ("E" :> 14) @@ ("F" :> 15)

\* the number a run of digits of the given base denotes
RECURSIVE DigitsValue(_, _, _)
DigitsValue(s, digit, base) ==
    IF s = <<>> THEN 0
    ELSE DigitsValue(SubSeq(s, 1, Len(s) - 1), digit, base) * base + digit[s[Len(s)]]

RECURSIVE Pow(_, _)
Pow(b, n) == IF n = 0 THEN 1 ELSE b * Pow(b, n - 1)

\* float(s): Some(value), or None for ValueError
ParseFloat(str) ==
    LET s == Strip(str)
        dots == {i \in DOMAIN s : s[i] = "."}
        digits == SelectSeq(s, LAMBDA c : c # ".")
    IN  IF /\ digits # <<>>
           /\ \A i \in DOMAIN digits : digits[i] \in DOMAIN DecDigit
           /\ Cardinality(dots) <= 1
        THEN LET decimals == IF dots = {} THEN 0
                             ELSE Len(s) - (CHOOSE i \in dots : TRUE)
             IN  Some(Frac(DigitsValue(digits, DecDigit, 10), Pow(10, decimals)))
        ELSE None

\* int(s, 16): Some(value), or None for ValueError
ParseInt16(str) ==
    LET s == Strip(str)
        digits == IF Len(s) >= 2 /\ s[1] = "0" /\ s[2] \in {"x", "X"}
                  THEN SubSeq(s, 3, Len(s)) ELSE s
    IN  IF digits # <<>> /\ \A i \in DOMAIN digits : digits[i] \in DOMAIN HexDigit
        THEN Some(DigitsValue(digits, HexDigit, 16))
        ELSE None

\* a & b on non-negative ints
RECURSIVE BitAnd(_, _)
BitAnd(a, b) ==
    IF a = 0 \/ b = 0 THEN 0
    ELSE (a % 2) * (b % 2) + 2 * BitAnd(a \div 2, b \div 2)

\* bool(n)
Bool(n) == n # 0

\* what subprocess.run gives: a CompletedProcess, or the exception it raises
Completed(returncode, stdout) ==
    [kind |-> "completed", returncode |-> returncode, stdout |-> stdout]

RunRaised(exc) == [kind |-> exc, returncode |-> 0, stdout |-> <<>>]

\* what open(path).read() gives: the content, or the exception open raises
FileContent(content) == [kind |-> "file", content |-> content]

OpenRaised(exc) == [kind |-> exc, content |-> <<>>]

\* 'sub in s'
Contains(s, sub) ==
    \E i \in 1..(Len(s) - Len(sub) + 1) : SubSeq(s, i, i + Len(sub) - 1) = sub

\* _check_raspberry_pi(), cpuinfo being what opening /proc/cpuinfo gives
SystemMonitor_check_raspberry_pi(cpuinfo) ==
    IF cpuinfo.kind = "file"
    THEN \/ Contains(cpuinfo.content, <<"R", "a", "s", "p", "b", "e", "r", "r", "y", " ", "P", "i">>)
         \/ Contains(cpuinfo.content, <<"B", "C", "M">>)
    ELSE FALSE

\* a call's result: the exception that leaves it ("none" when it returns), the
\* value returned, and the sensors it asked with what each gave
Returned(value, asked) == [raised |-> "none", value |-> value, asked |-> asked]

Raises(exc, asked) == [raised |-> exc, value |-> None, asked |-> asked]

\* a try body's outcome: the exception raised in it ("none" when it runs through)
\* and the value it returns (None when it returns nothing)
Body(exc, value) == [exc |-> exc, value |-> value]

\* except (FileNotFoundError, subprocess.TimeoutExpired, IndexError, ValueError)
ToolCaught_NoValueError == {"FileNotFoundError", "TimeoutExpired", "IndexError"}

ToolCaught == {"FileNotFoundError", "TimeoutExpired", "IndexError", "ValueError"}

\* except (FileNotFoundError, ValueError)
FileCaught == {"FileNotFoundError", "ValueError"}

\* the first try block of get_cpu_temp
MeasureTempBody(result) ==
    IF result.kind # "completed" THEN Body(result.kind, None)
    ELSE IF result.returncode = 0
    THEN LET temp_str == Strip(result.stdout)
             parts == Split(temp_str, "=")
         IN  IF Len(parts) < 2 THEN Body("IndexError", None)
             ELSE LET temp == ParseFloat(Split(parts[2], "'")[1])
                  IN  IF temp = None THEN Body("ValueError", None)
                      ELSE Body("none", temp)
    ELSE Body("none", None)

\* the second try block of get_cpu_temp
ThermalZoneBody(f) ==
    IF f.kind # "file" THEN Body(f.kind, None)
    ELSE LET milli == ParseFloat(Strip(f.content))
         IN  IF milli = None THEN Body("ValueError", None)
             ELSE Body("none", Some(FracDivInt(Val(milli), 1000)))

AskedPrimaryOnly(sens) ==
    <<[sensor |-> "measure_temp", gave |-> sens.measure_temp]>>

AskedBoth(sens) ==
    <<[sensor |-> "measure_temp", gave |-> sens.measure_temp],
      [sensor |-> "thermal_zone0", gave |-> sens.thermal_zone]>>

SystemMonitor_get_cpu_temp_PrimaryOnly(is_pi, sens) ==
    IF ~is_pi THEN Returned(None, <<>>)
    ELSE LET primary == MeasureTempBody(sens.measure_temp)
         IN  IF primary.exc \notin ToolCaught \cup {"none"}
             THEN Raises(primary.exc, AskedPrimaryOnly(sens))
             ELSE Returned(primary.value, AskedPrimaryOnly(sens))

\* get_cpu_temp() on a monitor whose is_raspberry_pi is is_pi, the sensors being sens
SystemMonitor_get_cpu_temp(is_pi, sens) ==
    IF ~is_pi THEN Returned(None, <<>>)
    ELSE LET primary == MeasureTempBody(sens.measure_temp)
         IN  IF primary.exc = "none" /\ primary.value # None
             THEN Returned(primary.value, AskedPrimaryOnly(sens))
             ELSE IF primary.exc \notin ToolCaught \cup {"none"}
             THEN Raises(primary.exc, AskedPrimaryOnly(sens))
             ELSE LET secondary == ThermalZoneBody(sens.thermal_zone)
                  IN  IF secondary.exc = "none"
                      THEN Returned(secondary.value, AskedBoth(sens))
                      ELSE IF secondary.exc \in FileCaught
                      THEN Returned(None, AskedBoth(sens))
                      ELSE Raises(secondary.exc, AskedBoth(sens))

DecodeThrottled_Shifted(throttled_hex, throttled_value) ==
    [raw_value |-> throttled_hex,
     under_voltage_now |-> Bool(BitAnd(throttled_value, 2)),
     freq_capped_now |-> Bool(BitAnd(throttled_value, 4)),
     throttled_now |-> Bool(BitAnd(throttled_value, 8)),
     soft_temp_limit_now |-> Bool(BitAnd(throttled_value, 16)),
     under_voltage_occurred |-> Bool(BitAnd(throttled_value, 131072)),
     freq_capped_occurred |-> Bool(BitAnd(throttled_value, 262144)),
     throttled_occurred |-> Bool(BitAnd(throttled_value, 524288)),
     soft_temp_limit_occurred |-> Bool(BitAnd(throttled_value, 1048576))]

\* the dict get_throttling_status returns; the masks are 0x1, 0x2, 0x4, 0x8,
\* 0x10000, 0x20000, 0x40000 and 0x80000
DecodeThrottled(throttled_hex, throttled_value) ==
    [raw_value |-> throttled_hex,
     under_voltage_now |-> Bool(BitAnd(throttled_value, 1)),
     freq_capped_now |-> Bool(BitAnd(throttled_value, 2)),
     throttled_now |-> Bool(BitAnd(throttled_value, 4)),
     soft_temp_limit_now |-> Bool(BitAnd(throttled_value, 8)),
     under_voltage_occurred |-> Bool(BitAnd(throttled_value, 65536)),
     freq_capped_occurred |-> Bool(BitAnd(throttled_value, 131072)),
     throttled_occurred |-> Bool(BitAnd(throttled_value, 262144)),
     soft_temp_limit_occurred |-> Bool(BitAnd(throttled_value, 524288))]

\* the try block of get_throttling_status
GetThrottledBody(result) ==
    IF result.kind # "completed" THEN Body(result.kind, None)
    ELSE IF result.returncode = 0
    THEN LET parts == Split(Strip(result.stdout), "=")
         IN  IF Len(parts) < 2 THEN Body("IndexError", None)
             ELSE LET throttled_hex == parts[2]
                      throttled_value == ParseInt16(throttled_hex)
                  IN  IF throttled_value = None THEN Body("ValueError", None)
                      ELSE Body("none",
                                Some(DecodeThrottled(throttled_hex, Val(throttled_value))))
    ELSE Body("none", None)

AskedThrottled(sens) == <<[sensor |-> "get_throttled", gave |-> sens.get_throttled]>>

\* get_throttling_status() with the handler catching the exceptions in caught
ThrottlingStatus(is_pi, sens, caught) ==
    IF ~is_pi THEN Returned(None, <<>>)
    ELSE LET body == GetThrottledBody(sens.get_throttled)
         IN  IF body.exc = "none" THEN Returned(body.value, AskedThrottled(sens))
             ELSE IF body.exc \in caught THEN Returned(None, AskedThrottled(sens))
             ELSE Raises(body.exc, AskedThrottled(sens))

SystemMonitor_get_throttling_status_ValueErrorUncaught(is_pi, sens) ==
    ThrottlingStatus(is_pi, sens, ToolCaught_NoValueError)

SystemMonitor_get_throttling_status_Unguarded(is_pi, sens) ==
    ThrottlingStatus(TRUE, sens, ToolCaught)

SystemMonitor_get_throttling_status(is_pi, sens) ==
    ThrottlingStatus(is_pi, sens, ToolCaught)

\* what psutil reports; the model keeps one reading of each
PsutilReadings ==
    [cpu |-> [overall |-> Num(20)], memory |-> [percent |-> Num(40)],
     load |-> [load_1min |-> Num(1)]]

\* get_full_snapshot() when time.time() reads t
SystemMonitor_get_full_snapshot(is_pi, sens, t) ==
    LET temperature == SystemMonitor_get_cpu_temp(is_pi, sens)
        throttling == SystemMonitor_get_throttling_status(is_pi, sens)
    IN  IF temperature.raised # "none" THEN Raises(temperature.raised, temperature.asked)
        ELSE IF throttling.raised # "none"
        THEN Raises(throttling.raised, temperature.asked \o throttling.asked)
        ELSE Returned([timestamp |-> t, cpu |-> PsutilReadings.cpu,
                       memory |-> PsutilReadings.memory, load |-> PsutilReadings.load,
                       temperature |-> temperature.value,
                       throttling |-> throttling.value],
                      temperature.asked \o throttling.asked)

\* self.initial_temp = self.get_cpu_temp() if self.is_raspberry_pi else None
SystemMonitor_initial_temp(is_pi, sens) ==
    IF is_pi THEN SystemMonitor_get_cpu_temp(is_pi, sens) ELSE Returned(None, <<>>)

----------------------------------------------------------------------------
(* SpecMonitor: one SystemMonitor, constructed on some platform, whose      *)
(* three sensor methods are called in any order while the sensors change.   *)

\* what opening /proc/cpuinfo can give
CpuInfoOutcomes ==
    { OpenRaised("FileNotFoundError"),
      FileContent(<<"M", "o", "d", "e", "l", " ", ":", " ", "R", "a", "s", "p", "b", "e", "r", "r", "y", " ", "P", "i", " ", "4">>),
      FileContent(<<"H", "a", "r", "d", "w", "a", "r", "e", " ", ":", " ", "B", "C", "M", "2", "8", "3", "5">>),
      FileContent(<<"m", "o", "d", "e", "l", " ", "n", "a", "m", "e", " ", ":", " ", "I", "n", "t", "e", "l">>) }

\* vcgencmd measure_temp: a reading of 42.8, and the ways it fails
TempReads == Completed(0, <<"t", "e", "m", "p", "=", "4", "2", ".", "8", "'", "C", "\n">>)
TempToolMissing == RunRaised("FileNotFoundError")
TempTimeout == RunRaised("TimeoutExpired")
TempExitCode == Completed(1, <<"t", "e", "m", "p", "=", "4", "2", ".", "8", "'", "C", "\n">>)
TempNoDelimiter == Completed(0, <<"4", "2", ".", "8", "'", "C", "\n">>)
TempNotANumber == Completed(0, <<"t", "e", "m", "p", "=", "n", "/", "a", "'", "C", "\n">>)
TempNoOutput == Completed(0, <<>>)

MeasureTempFailures ==
    {TempToolMissing, TempTimeout, TempExitCode, TempNoDelimiter, TempNotANumber,
     TempNoOutput}

\* /sys/class/thermal/thermal_zone0/temp: a reading of 45000, and the ways it fails
ThermalReads == FileContent(<<"4", "5", "0", "0", "0", "\n">>)
ThermalMissing == OpenRaised("FileNotFoundError")
ThermalNotANumber == FileContent(<<"n", "/", "a", "\n">>)

ThermalFailures == {ThermalMissing, ThermalNotANumber}

\* vcgencmd get_throttled: the words 0x0 and 0x50005, and the ways it fails
ThrottledZero == Completed(0, <<"t", "h", "r", "o", "t", "t", "l", "e", "d", "=", "0", "x", "0", "\n">>)
ThrottledExample == Completed(0, <<"t", "h", "r", "o", "t", "t", "l", "e", "d", "=", "0", "x", "5", "0", "0", "0", "5", "\n">>)
ThrottledToolMissing == RunRaised("FileNotFoundError")
ThrottledTimeout == RunRaised("TimeoutExpired")
ThrottledExitCode == Completed(1, <<"t", "h", "r", "o", "t", "t", "l", "e", "d", "=", "0", "x", "0", "\n">>)
ThrottledNoDelimiter == Completed(0, <<"t", "h", "r", "o", "t", "t", "l", "e", "d", " ", "0", "x", "0", "\n">>)
ThrottledNotHex == Completed(0, <<"t", "h", "r", "o", "t", "t", "l", "e", "d", "=", "0", "x", "Z", "Z", "\n">>)

GetThrottledFailures ==
    {ThrottledToolMissing, ThrottledTimeout, ThrottledExitCode, ThrottledNoDelimiter,
     ThrottledNotHex}

\* what each sensor can give
SensorOutcomes ==
    [measure_temp |-> {TempReads} \cup MeasureTempFailures,
     thermal_zone |-> {ThermalReads} \cup ThermalFailures,
     get_throttled |-> {ThrottledZero, ThrottledExample} \cup GetThrottledFailures]

SensorStates ==
    [measure_temp : SensorOutcomes.measure_temp,
     thermal_zone : SensorOutcomes.thermal_zone,
     get_throttled : SensorOutcomes.get_throttled]

\* the variables of the other objects, not in use
MonitorOnly ==
    /\ now = 0
    /\ fps_calc = FPSCalculator__init__(WINDOW_SIZE)
    /\ inference_timer = InferenceTimer__init__
    /\ intervals = <<>>
    /\ since_reset = FALSE
    /\ durs = <<>>
    /\ pc = "none"
    /\ mode = "none"
    /\ limit = 0
    /\ cap = "none"
    /\ monitoring_active = FALSE
    /\ sampler_pc = "none"
    /\ snapshot = None
    /\ wake_at = 0
    /\ join_deadline = 0
    /\ metrics_buffer = <<>>
    /\ log_file = <<>>
    /\ loc = NoLocals
    /\ summary = None
    /\ json_file = None
    /\ interrupted = FALSE
    /\ main_appended = <<>>
    /\ sampler_appended = <<>>
    /\ calls = [write_summary |-> 0, save_json |-> 0]
    /\ NoLoggers
    /\ NoComparator
    /\ NoCaptures

monitorFrame ==
    <<now, fps_calc, inference_timer, intervals, since_reset, durs, pc, mode, limit,
      cap, monitoring_active, sampler_pc, snapshot, wake_at, join_deadline,
      metrics_buffer, log_file, loc, summary, json_file, interrupted, main_appended,
      sampler_appended, calls, loggers, comparator, outputs, captures>>

\* the monitor call r: what the caller gets, and the history of what it asked
MonitorCall(name, r) ==
    /\ op' = name
    /\ ret' = [raised |-> r.raised, value |-> r.value]
    /\ attempted' = r.asked

\* SystemMonitor(): the platform probe, then the initial temperature
InitMonitor ==
    /\ MonitorOnly
    /\ sensors \in SensorStates
    /\ \E cpuinfo \in CpuInfoOutcomes :
          is_raspberry_pi = SystemMonitor_check_raspberry_pi(cpuinfo)
    /\ LET r == SystemMonitor_initial_temp(is_raspberry_pi, sensors)
       IN  /\ op = "__init__"
           /\ ret = [raised |-> r.raised, value |-> r.value]
           /\ attempted = r.asked

\* a tool or file of the machine changes under the monitor
SensorsChange ==
    /\ \E k \in DOMAIN SensorOutcomes :
          \E gives \in SensorOutcomes[k] \ {sensors[k]} :
              sensors' = [sensors EXCEPT ![k] = gives]
    /\ UNCHANGED <<monitorFrame, op, ret, attempted, is_raspberry_pi>>

GetCpuTemp ==
    /\ MonitorCall("get_cpu_temp", SystemMonitor_get_cpu_temp(is_raspberry_pi, sensors))
    /\ UNCHANGED <<monitorFrame, sensors, is_raspberry_pi>>

GetThrottlingStatus ==
    /\ MonitorCall("get_throttling_status",
                   SystemMonitor_get_throttling_status(is_raspberry_pi, sensors))
    /\ UNCHANGED <<monitorFrame, sensors, is_raspberry_pi>>

GetFullSnapshot ==
    /\ MonitorCall("get_full_snapshot",
                   SystemMonitor_get_full_snapshot(is_raspberry_pi, sensors, now))
    /\ UNCHANGED <<monitorFrame, sensors, is_raspberry_pi>>

NextMonitor ==
    \/ SensorsChange
    \/ GetCpuTemp
    \/ GetThrottlingStatus
    \/ GetFullSnapshot

SpecMonitor == InitMonitor /\ [][NextMonitor]_vars

----------------------------------------------------------------------------
(* SpecThrottle: get_throttling_status on a Raspberry Pi whose firmware     *)
(* holds some status word, which vcgencmd prints in hex.                    *)

\* the bits of the status word the model sets: the eight the firmware defines
\* and three it does not
StatusBits == {0, 1, 2, 3, 16, 17, 18, 19} \cup {4, 15, 20}

RECURSIVE BitsWord(_)
BitsWord(bits) ==
    IF bits = {} THEN 0
    ELSE LET b == CHOOSE x \in bits : TRUE IN Pow(2, b) + BitsWord(bits \ {b})

StatusWords == {BitsWord(bits) : bits \in SUBSET StatusBits}

HexChars ==
    <<"0", "1", "2", "3", "4", "5", "6", "7", "8", "9", "a", "b", "c", "d", "e", "f">>

\* how vcgencmd prints a word: lower-case hex without leading zeros
RECURSIVE HexString(_)
HexString(v) ==
    IF v < 16 THEN <<HexChars[v + 1]>>
    ELSE HexString(v \div 16) \o <<HexChars[(v % 16) + 1]>>

\* the output of vcgencmd get_throttled for the status word v
ThrottledOutput(v) == <<"t", "h", "r", "o", "t", "t", "l", "e", "d", "=", "0", "x">> \o HexString(v) \o <<"\n">>

InitThrottle ==
    /\ MonitorOnly
    /\ \E v \in StatusWords :
          sensors = [measure_temp |-> TempReads, thermal_zone |-> ThermalReads,
                     get_throttled |-> Completed(0, ThrottledOutput(v)),
                     status_word |-> v]
    /\ is_raspberry_pi = TRUE
    /\ LET r == SystemMonitor_initial_temp(is_raspberry_pi, sensors)
       IN  /\ op = "__init__"
           /\ ret = [raised |-> r.raised, value |-> r.value]
           /\ attempted = r.asked

NextThrottle == GetThrottlingStatus

SpecThrottle == InitThrottle /\ [][NextThrottle]_vars

----------------------------------------------------------------------------
(* BenchmarkComparator, compare_results.py.  A dict is a function on its    *)
(* keys, {} is the function on no key; a dict whose order matters (results  *)
(* and the per-model tables built from it) is the sequence of its items.    *)

EmptyDict == <<>>

\* d.get(k, default)
Get(d, k, default) == IF k \in DOMAIN d THEN d[k] ELSE default

\* bool(x) of a number: present and not zero
Truthy(q) == q # Zero

\* q1 / q2 for q2 > 0
FracDiv(q1, q2) == Frac(q1[1] * q2[2], q1[2] * q2[1])

FracAbs(q) == IF q[1] < 0 THEN <<0 - q[1], q[2]>> ELSE q

FracLt(q1, q2) == ~FracLe(q2, q1)

BenchmarkComparator__init__ == [results |-> <<>>]

\* self.results[model_name] = data
DictSet(items, name, value) ==
    IF \E i \in DOMAIN items : items[i].name = name
    THEN [i \in DOMAIN items |->
             IF items[i].name = name THEN [name |-> name, value |-> value]
             ELSE items[i]]
    ELSE Append(items, [name |-> name, value |-> value])

BenchmarkComparator_load_json_log(c, model_name, data) ==
    [c EXCEPT !.results = DictSet(c.results, model_name, data)]

\* list(d.keys())
Keys(items) == [i \in DOMAIN items |-> items[i].name]

\* {name: summary.get(key, 0) for name, summary in summaries.items()}
Table(results, key) ==
    [i \in DOMAIN results |->
        [name |-> results[i].name,
         value |-> Get(Get(results[i].value, "summary", EmptyDict), key, Zero)]]

ArgMax_Last(items) ==
    LET i == CHOOSE k \in DOMAIN items :
                 /\ \A j \in DOMAIN items : FracLe(items[j].value, items[k].value)
                 /\ \A j \in (k + 1)..Len(items) : FracLt(items[j].value, items[k].value)
    IN  items[i].name

\* max(d, key=d.get): the first key with the greatest value
ArgMax(items) ==
    LET i == CHOOSE k \in DOMAIN items :
                 /\ \A j \in DOMAIN items : FracLe(items[j].value, items[k].value)
                 /\ \A j \in 1..(k - 1) : FracLt(items[j].value, items[k].value)
    IN  items[i].name

\* min(d, key=d.get): the first key with the least value
ArgMin(items) ==
    LET i == CHOOSE k \in DOMAIN items :
                 /\ \A j \in DOMAIN items : FracLe(items[k].value, items[j].value)
                 /\ \A j \in 1..(k - 1) : FracLt(items[k].value, items[j].value)
    IN  items[i].name

\* the improvement dict for improvement_pct and better_model
Improvement(improvement_pct, better_model) ==
    [percentage |-> FracAbs(improvement_pct),
     better_model |-> better_model,
     direction |-> IF FracLt(Zero, improvement_pct) THEN "improvement"
                   ELSE "regression"]

BenchmarkComparator_calculate_improvement_OverSecond(data, lower_is_better) ==
    IF Len(data) # 2 THEN [raised |-> "none", value |-> EmptyDict]
    ELSE LET models == Keys(data)
             values == [i \in DOMAIN data |-> data[i].value]
         IN  IF values[2] = Zero
             THEN [raised |-> "ZeroDivisionError", value |-> EmptyDict]
             ELSE [raised |-> "none",
                   value |-> Improvement(
                       FracMulInt(FracDiv(FracSub(values[2], values[1]), values[2]), 100),
                       IF FracLt(values[1], values[2]) THEN models[2] ELSE models[1])]

\* _calculate_improvement(data, lower_is_better)
BenchmarkComparator_calculate_improvement(data, lower_is_better) ==
    IF Len(data) # 2 THEN [raised |-> "none", value |-> EmptyDict]
    ELSE LET models == Keys(data)
             values == [i \in DOMAIN data |-> data[i].value]
         IN  IF values[1] = Zero
             THEN [raised |-> "ZeroDivisionError", value |-> EmptyDict]
             ELSE IF lower_is_better
             THEN [raised |-> "none",
                   value |-> Improvement(
                       FracMulInt(FracDiv(FracSub(values[1], values[2]), values[1]), 100),
                       IF FracLt(values[2], values[1]) THEN models[2] ELSE models[1])]
             ELSE [raised |-> "none",
                   value |-> Improvement(
                       FracMulInt(FracDiv(FracSub(values[2], values[1]), values[1]), 100),
                       IF FracLt(values[1], values[2]) THEN models[2] ELSE models[1])]

BenchmarkComparator_compare_OneSided(c) ==
    [raised |-> "none",
     value |-> [models |-> Keys(c.results),
                performance |-> [fps |-> Table(c.results, "avg_fps")],
                winner |-> IF c.results = <<>> THEN EmptyDict
                           ELSE [fps |-> ArgMax(Table(c.results, "avg_fps"))]]]

\* compare(): the exception that leaves it ("none" when it returns) and the
\* comparison dict returned
BenchmarkComparator_compare(c) ==
    IF Len(c.results) < 2 THEN [raised |-> "none", value |-> EmptyDict]
    ELSE LET fps_data == Table(c.results, "avg_fps")
             inference_data == Table(c.results, "avg_inference_ms")
             cpu_data == Table(c.results, "avg_cpu")
             memory_data == Table(c.results, "avg_memory")
             temp_data == SelectSeq(Table(c.results, "avg_temperature"),
                                    LAMBDA item : Truthy(item.value))
             throttle_data == Table(c.results, "throttle_events")
             fps_improvement == BenchmarkComparator_calculate_improvement(fps_data, FALSE)
             inference_improvement ==
                 BenchmarkComparator_calculate_improvement(inference_data, TRUE)
             system == [cpu |-> cpu_data, memory |-> memory_data,
                        throttle_events |-> throttle_data]
             winner == [fps |-> ArgMax(fps_data), inference |-> ArgMin(inference_data),
                        cpu |-> ArgMin(cpu_data), memory |-> ArgMin(memory_data)]
         IN  IF fps_improvement.raised # "none"
             THEN [raised |-> fps_improvement.raised, value |-> EmptyDict]
             ELSE IF inference_improvement.raised # "none"
             THEN [raised |-> inference_improvement.raised, value |-> EmptyDict]
             ELSE [raised |-> "none",
                   value |->
                       [models |-> Keys(c.results),
                        performance |->
                            [fps |-> fps_data,
                             fps_improvement |-> fps_improvement.value,
                             inference_ms |-> inference_data,
                             inference_improvement |-> inference_improvement.value],
                        system |->
                            IF temp_data # <<>>
                            THEN system @@ [temperature |-> temp_data]
                            ELSE system,
                        winner |->
                            IF temp_data # <<>>
                            THEN winner @@ [temperature |-> ArgMin(temp_data)]
                            ELSE winner]]

\* wins = {model: 0 for model in models}, then one more for each category won
Wins(comparison) ==
    [i \in DOMAIN comparison.models |->
        [name |-> comparison.models[i],
         value |-> Num(Cardinality({category \in DOMAIN comparison.winner :
                                       comparison.winner[category] =
                                           comparison.models[i]}))]]

\* print_comparison(comparison): the models compared, the category wins and the
\* overall winner it prints
BenchmarkComparator_print_comparison(comparison) ==
    [comparing |-> comparison.models,
     category_wins |-> Wins(comparison),
     overall_winner |-> ArgMax(Wins(comparison))]

\* what main() leaves: its comparator, what compare() gave if it was reached,
\* and what was printed and written
MainResult(c, compared, messages, report, file) ==
    [comparator |-> c, compared |-> compared,
     outputs |-> [messages |-> messages, report |-> report, file |-> file]]

NotCompared == [raised |-> "none", value |-> EmptyDict]

\* main() from 'comparison = comparator.compare()' on
MainCompare(c, messages) ==
    LET compared == BenchmarkComparator_compare(c)
        comparison == compared.value
    IN  IF compared.raised # "none"
        THEN MainResult(c, compared, Append(messages, compared.raised), None, None)
        ELSE IF DOMAIN comparison # {}
        THEN MainResult(c, compared, messages,
                        Some(BenchmarkComparator_print_comparison(comparison)),
                        Some(comparison))
        ELSE MainResult(c, compared, Append(messages, "need_two"), None, None)

\* main(): args tells which options were given, disk what log each model's path
\* (or, with --auto, each model's directory) holds, None for no file
Main(args, disk) ==
    LET c0 == BenchmarkComparator__init__
        load(c, m) == BenchmarkComparator_load_json_log(c, m, Val(disk[m]))
    IN  IF args.auto \/ (~args.yolov8 /\ ~args.yolov11)
        THEN LET latest_logs == SelectSeq(<<"yolov8", "yolov11">>,
                                          LAMBDA m : disk[m] # None)
             IN  IF Len(latest_logs) < 2
                 THEN MainResult(c0, NotCompared, <<"not_found_both">>, None, None)
                 ELSE MainCompare(load(load(c0, "yolov8"), "yolov11"), <<>>)
        ELSE LET c1 == IF args.yolov8 /\ disk.yolov8 # None
                       THEN load(c0, "yolov8") ELSE c0
             IN  IF args.yolov8 /\ disk.yolov8 = None
                 THEN MainResult(c0, NotCompared, <<"not_found_yolov8">>, None, None)
                 ELSE IF args.yolov11 /\ disk.yolov11 = None
                 THEN MainResult(c1, NotCompared, <<"not_found_yolov11">>, None, None)
                 ELSE MainCompare(IF args.yolov11 THEN load(c1, "yolov11") ELSE c1, <<>>)

----------------------------------------------------------------------------
(* SpecCompare: one BenchmarkComparator loaded and compared through its     *)
(* methods in any order, and runs of main(), each with a comparator of its  *)
(* own and in a process of its own.                                         *)

\* names under which a run can be loaded
LoadNames == MODEL_NAMES \cup {"yolo11n"}

\* summaries a benchmark run can have persisted, without and with temperature
Summaries ==
    { [avg_fps |-> f, avg_inference_ms |-> i, avg_cpu |-> Num(50),
       avg_memory |-> Num(40), throttle_events |-> 0] :
          f \in {Num(20), Num(25)}, i \in {Num(40), Num(50)} }
    \cup
    { [avg_fps |-> Num(20), avg_inference_ms |-> Num(50), avg_cpu |-> Num(50),
       avg_memory |-> Num(40), throttle_events |-> 0, avg_temperature |-> Num(50)],
      [avg_fps |-> Num(25), avg_inference_ms |-> Num(40), avg_cpu |-> Num(50),
       avg_memory |-> Num(40), throttle_events |-> 0, avg_temperature |-> Num(55)],
      \* a run that processed no frame
      [avg_fps |-> Zero, avg_inference_ms |-> Zero, avg_cpu |-> Num(50),
       avg_memory |-> Num(40), throttle_events |-> 0] }

\* JSON logs a path can hold: a run with a summary, or one whose summary has no field
Logs == {[summary |-> sm] : sm \in Summaries} \cup {[summary |-> EmptyDict]}

MainArgs == [auto : BOOLEAN, yolov8 : BOOLEAN, yolov11 : BOOLEAN]

Disks == [yolov8 : {None} \cup {Some(l) : l \in Logs},
          yolov11 : {None} \cup {Some(l) : l \in Logs}]

NoOutputs == [messages |-> <<>>, report |-> None, file |-> None]

InitCompare ==
    /\ now = 0
    /\ fps_calc = FPSCalculator__init__(WINDOW_SIZE)
    /\ inference_timer = InferenceTimer__init__
    /\ op = "__init__"
    /\ ret = NotCompared
    /\ intervals = <<>>
    /\ since_reset = FALSE
    /\ durs = <<>>
    /\ pc = "none"
    /\ mode = "none"
    /\ limit = 0
    /\ cap = "none"
    /\ monitoring_active = FALSE
    /\ sampler_pc = "none"
    /\ snapshot = None
    /\ wake_at = 0
    /\ join_deadline = 0
    /\ metrics_buffer = <<>>
    /\ log_file = <<>>
    /\ loc = NoLocals
    /\ summary = None
    /\ json_file = None
    /\ interrupted = FALSE
    /\ main_appended = <<>>
    /\ sampler_appended = <<>>
    /\ calls = [write_summary |-> 0, save_json |-> 0]
    /\ is_raspberry_pi = FALSE
    /\ NoLoggers
    /\ NoMonitorCalls
    /\ NoCaptures
    /\ comparator = BenchmarkComparator__init__
    /\ outputs = NoOutputs

compareFrame ==
    <<now, fps_calc, inference_timer, intervals, since_reset, durs, pc, mode, limit,
      cap, monitoring_active, sampler_pc, snapshot, wake_at, join_deadline,
      metrics_buffer, log_file, loc, summary, json_file, interrupted, main_appended,
      sampler_appended, calls, is_raspberry_pi, loggers, sensors, attempted,
      captures>>

\* comparator.load_json_log(json_path, model_name), the file holding data
CmpLoadJsonLog ==
    /\ op # "main"
    /\ \E model_name \in LoadNames, data \in Logs :
          comparator' = BenchmarkComparator_load_json_log(comparator, model_name, data)
    /\ op' = "load_json_log"
    /\ ret' = None
    /\ UNCHANGED <<compareFrame, outputs>>

\* comparator.compare()
CmpCompare ==
    /\ op # "main"
    /\ ret' = BenchmarkComparator_compare(comparator)
    /\ op' = "compare"
    /\ UNCHANGED <<compareFrame, comparator, outputs>>

\* one run of main()
CmpMain ==
    /\ op \in {"__init__", "main"}
    /\ \E args \in MainArgs, disk \in Disks :
          LET r == Main(args, disk)
          IN  /\ comparator' = r.comparator
              /\ ret' = r.compared
              /\ outputs' = r.outputs
    /\ op' = "main"
    /\ UNCHANGED compareFrame

NextCompare ==
    \/ CmpLoadJsonLog
    \/ CmpCompare
    \/ CmpMain

SpecCompare == InitCompare /\ [][NextCompare]_vars

----------------------------------------------------------------------------
(* SpecSnapshots: a logger that is handed snapshots taken on a Raspberry Pi *)
(* under every combination of the active throttling conditions, and then   *)
(* summarised.                                                             *)

\* throttling statuses get_throttling_status can return: the three conditions
\* active now, each set or not
ThrottleStatuses ==
    { [NoThrottle EXCEPT !.under_voltage_now = u, !.freq_capped_now = f,
                         !.throttled_now = t] : u, f, t \in BOOLEAN }

\* snapshots get_full_snapshot can return on a Raspberry Pi
PiSnapshots ==
    { [timestamp |-> now, cpu |-> [overall |-> Num(60)],
       memory |-> [percent |-> Num(40)], load |-> [load_1min |-> Num(1)],
       temperature |-> Some(Num(50)), throttling |-> th] :
        th \in {None} \cup {Some(st) : st \in ThrottleStatuses} }

\* log_system_snapshot(snap), keeping the snapshot handed over
LogPiSnapshot ==
    /\ summary = None
    /\ Len(metrics_buffer) < MaxRecords
    /\ \E snap \in PiSnapshots :
          /\ metrics_buffer' = ListAppend(metrics_buffer, SnapshotMetric(snap))
          /\ snapshot' = Some(snap)
    /\ op' = "log_system_snapshot"
    /\ UNCHANGED <<now, fps_calc, inference_timer, ret, intervals, since_reset, durs,
                   pc, mode, limit, cap, monitoring_active, sampler_pc, wake_at,
                   join_deadline, interrupted, main_appended, sampler_appended,
                   is_raspberry_pi, auxVars, log_file, loc, summary, json_file, calls>>

NextSnapshots ==
    \/ LogPiSnapshot
    \/ LoggerWriteSummary

SpecSnapshots == InitLogger /\ [][NextSnapshots]_vars

----------------------------------------------------------------------------
(* SpecCamera: a camera run on a Raspberry Pi in which what each cap.read()  *)
(* gave is kept.  A camera run of at most MaxCameraFrames frames never      *)
(* reaches a frame count that is logged, so log_inference is not among its  *)
(* steps.                                                                   *)

MaxFailedCaptures == 2

FailedCaptures == Len(SelectSeq(captures, LAMBDA frame_ok : ~frame_ok))

\* ret, frame = cap.read() and what follows it, the outcome kept
CameraCapture ==
    /\ pc = "capture"
    /\ \E frame_ok \in BOOLEAN :
          /\ frame_ok \/ FailedCaptures < MaxFailedCaptures
          /\ CaptureGave(frame_ok)
          /\ captures' = Append(captures, frame_ok)
    /\ UNCHANGED <<now, fps_calc, unitVars, mode, limit, cap, monitoring_active,
                   sampler_pc, snapshot, wake_at, join_deadline, metrics_buffer,
                   log_file, loc, summary, json_file, interrupted, main_appended,
                   sampler_appended, calls, is_raspberry_pi, loggers, sensors,
                   attempted, comparator, outputs>>

\* a camera run on a Raspberry Pi
InitCamera == Init /\ mode = "camera" /\ is_raspberry_pi

NextCamera ==
    \/ RunTick
    \/ OpenInput
    \/ StartMonitoring
    \/ FpsStart
    \/ LoopInit
    \/ LoopCheck
    \/ CameraCapture
    \/ InferenceDone
    \/ UpdateFps
    \/ KeyboardInterrupt
    \/ StopMonitoring
    \/ Join
    \/ ReleaseCamera
    \/ CollectInferenceTimes
    \/ CollectFpsValues
    \/ CollectCpuValues
    \/ CollectMemoryValues
    \/ CollectTempValues
    \/ CountThrottle
    \/ WriteSummary
    \/ SaveJson
    \/ SamplerCheck
    \/ SamplerLog

SpecCamera == InitCamera /\ [][NextCamera]_vars

----------------------------------------------------------------------------
(* SpecStop: a camera run in which the sampler thread is scheduled fairly   *)
(* and time goes on while the stopped sampler sleeps, whatever the main     *)
(* thread does.                                                             *)

\* time passing while the sampler is inside time.sleep(1.0) after the flag was cleared
SleepTick ==
    /\ ~monitoring_active
    /\ sampler_pc = "check"
    /\ now < wake_at
    /\ now' = now + 1
    /\ UNCHANGED <<fps_calc, inference_timer, unitVars, runVars>>

NextStop ==
    \/ RunTick
    \/ SleepTick
    \/ OpenInput
    \/ StartMonitoring
    \/ FpsStart
    \/ LoopInit
    \/ LoopCheck
    \/ Capture
    \/ InferenceDone
    \/ UpdateFps
    \/ KeyboardInterrupt
    \/ StopMonitoring
    \/ Join
    \/ ReleaseCamera
    \/ CollectInferenceTimes
    \/ CollectFpsValues
    \/ CollectCpuValues
    \/ CollectMemoryValues
    \/ CollectTempValues
    \/ CountThrottle
    \/ WriteSummary
    \/ SaveJson
    \/ SamplerCheck
    \/ SamplerLog

SpecStop ==
    /\ InitCamera
    /\ [][NextStop]_vars
    /\ WF_vars(SamplerCheck)
    /\ WF_vars(SamplerLog)
    /\ WF_vars(SleepTick)

----------------------------------------------------------------------------
(* Claims about a benchmark run, checked under Spec *)

IsInferenceRecord(m) == "frame" \in DOMAIN m
IsSnapshotRecord(m) == "cpu_percent" \in DOMAIN m

\* where the main thread is once _write_summary has made its first pass over the buffer
SummaryStartedPcs ==
    {"summary_fps", "summary_cpu", "summary_memory", "summary_temp",
     "summary_throttle", "write_summary", "save_json", "done"}

\* C1 (as stated): under every interleaving, also when join(timeout=2.0) returns
\* with the sampler still inside get_full_snapshot, the sampler appends nothing to
\* metrics_buffer once _write_summary has started reading it, nor after
\* write_summary / save_json were called.
C1_NoAppendOnceSummaryStarted ==
    [][SamplerLog => pc \notin SummaryStartedPcs]_vars

\* the highest frame number a persisted record carries, 0 when none carries one
RECURSIVE LastFrame(_)
LastFrame(metrics) ==
    IF metrics = <<>> THEN 0
    ELSE LET m == metrics[Len(metrics)]
         IN  IF "frame" \in DOMAIN m THEN m.frame
             ELSE LastFrame(SubSeq(metrics, 1, Len(metrics) - 1))

\* C2 (as stated): in the record save_json persists, every summary field is what
\* re-aggregating the persisted metrics gives; total_frames is recovered from the
\* persisted frame records.
C2_SummaryDerivableFromMetrics ==
    json_file # None =>
        LET metrics == Val(json_file).metrics
            persisted == Val(Val(json_file).summary)
        IN  /\ persisted.total_frames = LastFrame(metrics)
            /\ persisted.min_fps = MinOrZero(FieldValues(metrics, "fps"))
            /\ persisted.max_fps = MaxOrZero(FieldValues(metrics, "fps"))
            /\ persisted.avg_inference_ms
                   = FracMulInt(MeanOrZero(FieldValues(metrics, "inference_time")), 1000)
            /\ persisted.avg_cpu = MeanOrZero(FieldValues(metrics, "cpu_percent"))
            /\ persisted.max_cpu = MaxOrZero(FieldValues(metrics, "cpu_percent"))
            /\ persisted.avg_memory = MeanOrZero(FieldValues(metrics, "memory_percent"))
            /\ persisted.throttle_events = ThrottleCount(metrics)

\* what the finally block leads to
AfterTryPcs ==
    {"finally", "join", "release", "summary_inference"} \cup SummaryStartedPcs

\* C3: once a KeyboardInterrupt was raised inside the benchmark loop, the main
\* thread is in the finally block or past it; past _stop_monitoring the sampler is
\* signalled to stop; write_summary and save_json are called at most once, in that
\* order; and when the run has ended the capture handle (camera mode) is released,
\* both were called exactly once, and the persisted summary and metrics cover the
\* frames counted and the records the main thread logged before the interrupt.
C3_InterruptStillSummarises ==
    interrupted =>
        /\ pc \in AfterTryPcs
        /\ pc # "finally" => ~monitoring_active
        /\ calls.save_json <= calls.write_summary
        /\ calls.write_summary <= 1
        /\ pc = "done" =>
              /\ mode = "camera" => cap = "released"
              /\ calls = [write_summary |-> 1, save_json |-> 1]
              /\ summary # None
              /\ json_file # None
              /\ Val(json_file).summary = summary
              /\ Val(summary).total_frames = FPSCalculator_get_frame_count(fps_calc)
              /\ SelectSeq(Val(json_file).metrics, IsInferenceRecord) = main_appended
              /\ Val(summary).max_fps = MaxOrZero(FieldValues(main_appended, "fps"))
              /\ log_file[Len(log_file)] = "summary"

\* C3 witness: a run interrupted after both threads had logged records has ended.
C3_Witness ==
    /\ interrupted
    /\ pc = "done"
    /\ main_appended # <<>>
    /\ sampler_appended # <<>>
    /\ fps_calc.frame_count > 0
    /\ fps_calc.frame_count < limit

\* C4: under every interleaving of log_inference (main loop) and
\* log_system_snapshot (sampler), every appended record is in metrics_buffer exactly
\* once, none is lost or overwritten, and each writer's records keep their order.
C4_ConcurrentAppendsKept ==
    /\ SelectSeq(metrics_buffer, IsInferenceRecord) = main_appended
    /\ SelectSeq(metrics_buffer, IsSnapshotRecord) = sampler_appended
    /\ Len(metrics_buffer) = Len(main_appended) + Len(sampler_appended)
    /\ \A i, j \in DOMAIN metrics_buffer : i # j => metrics_buffer[i] # metrics_buffer[j]

\* C4 witness: while the main loop runs, the buffer holds a snapshot, then an
\* inference record, then another snapshot.
C4_Witness ==
    /\ pc \in TryPcs
    /\ sampler_pc \in {"check", "snapshot"}
    /\ Len(metrics_buffer) >= 3
    /\ \E i, j, k \in DOMAIN metrics_buffer :
          /\ i < j /\ j < k
          /\ IsSnapshotRecord(metrics_buffer[i])
          /\ IsInferenceRecord(metrics_buffer[j])
          /\ IsSnapshotRecord(metrics_buffer[k])

----------------------------------------------------------------------------
(* Claims about FPSCalculator, checked under SpecFPS *)

\* the window the claims speak of: the last k = min(window_size, N) recorded intervals
WindowK == Min2(fps_calc.window_size, Len(intervals))
WindowSum == Sum(LastK(intervals, WindowK))

\* C5 (as stated): once N >= 1 intervals are recorded, get_fps() and the value
\* update() returns are k / (sum of the last k intervals), k = min(window_size, N);
\* with no interval recorded get_fps() is 0.0.  q = k / s is stated as q.num * s = k * q.den.
C5_RollingFpsIsKOverSum ==
    LET q == FPSCalculator_get_fps(fps_calc)
    IN  /\ intervals = <<>> => q = Zero
        /\ intervals # <<>> => q[1] * WindowSum = WindowK * q[2]
        /\ (intervals # <<>> /\ op = "update") => ret[1] * WindowSum = WindowK * ret[2]

\* C5 (amended): the same whenever the sum of the last k intervals is positive; when
\* that sum is zero (equal clock readings) get_fps() and update() return 0.0.
C5_RollingFps ==
    LET q == FPSCalculator_get_fps(fps_calc)
    IN  /\ intervals = <<>> => q = Zero
        /\ (intervals # <<>> /\ WindowSum > 0) => q = Frac(WindowK, WindowSum)
        /\ (intervals # <<>> /\ WindowSum = 0) => q = Zero
        /\ op \in {"update", "get_fps"} => ret = q

\* C5 witness: more intervals than the window holds were recorded, the oldest was
\* evicted, and update() returned a non-zero rate.
C5_Witness ==
    /\ op = "update"
    /\ Len(intervals) > fps_calc.window_size
    /\ intervals[1] # intervals[Len(intervals)]
    /\ WindowSum > 0
    /\ ret # Zero

\* C6: for a calculator started at t0 with F update() calls since, get_average_fps()
\* read at t0 + T, T > 0, is F / T, whatever the window size.
C6_AverageFps ==
    (fps_calc.start_time # None /\ now > Val(fps_calc.start_time)) =>
        FPSCalculator_get_average_fps(fps_calc, now)
            = Frac(Len(intervals), now - Val(fps_calc.start_time))

\* C6 witness: more frames than the window holds, read after time has passed.
C6_Witness ==
    /\ op = "get_average_fps"
    /\ fps_calc.start_time # None
    /\ now > Val(fps_calc.start_time)
    /\ Len(intervals) > fps_calc.window_size
    /\ ret = Frac(Len(intervals), now - Val(fps_calc.start_time))

\* C10: after reset(), until the next start()/update(), the window is empty,
\* frame_count is 0, start_time and last_frame_time are unset (the clock was not
\* read), and get_fps(), get_average_fps() and get_elapsed_time() return 0.0 at
\* every later clock reading.
C10_ResetClears ==
    since_reset =>
        /\ fps_calc.frame_times = <<>>
        /\ fps_calc.frame_count = 0
        /\ fps_calc.start_time = None
        /\ fps_calc.last_frame_time = None
        /\ FPSCalculator_get_fps(fps_calc) = Zero
        /\ FPSCalculator_get_average_fps(fps_calc, now) = Zero
        /\ FPSCalculator_get_elapsed_time(fps_calc, now) = Zero
        /\ op \in {"get_fps", "get_average_fps", "get_elapsed_time"} => ret = Zero

\* C10 witness: a getter was called after a reset() made at a non-zero clock reading.
C10_Witness ==
    /\ since_reset
    /\ now > 0
    /\ op = "get_elapsed_time"
    /\ ret = Zero

----------------------------------------------------------------------------
(* Claims about InferenceTimer, checked under SpecTimer *)

\* C7: stop() with no start() pending returns 0.0 and leaves the recorded sequence
\* and get_count() unchanged.
C7_StopUnstartedIsNoOp ==
    [][TimerStopUnstarted =>
          /\ ret' = Zero
          /\ inference_timer'.times = inference_timer.times
          /\ InferenceTimer_get_count(inference_timer')
                 = InferenceTimer_get_count(inference_timer)]_vars

\* C7 witness: a second stop() after a start()/stop() pair.
C7_Witness ==
    /\ op = "stop_unstarted"
    /\ Len(inference_timer.times) >= 1
    /\ ret = Zero

SeqRange(s) == {s[i] : i \in DOMAIN s}

\* C8: after N >= 1 start()/stop() pairs with durations d1..dN, get_count() = N,
\* get_average() = (d1 + ... + dN) / N, get_min() and get_max() are the least and
\* the greatest of them, and the durations are kept in call order.
C8_TimerStatistics ==
    durs # <<>> =>
        /\ inference_timer.times = durs
        /\ InferenceTimer_get_count(inference_timer) = Len(durs)
        /\ InferenceTimer_get_average(inference_timer) = Frac(Sum(durs), Len(durs))
        /\ \E m \in SeqRange(durs) :
               /\ \A d \in SeqRange(durs) : m <= d
               /\ InferenceTimer_get_min(inference_timer) = Num(m)
        /\ \E m \in SeqRange(durs) :
               /\ \A d \in SeqRange(durs) : m >= d
               /\ InferenceTimer_get_max(inference_timer) = Num(m)
        /\ op = "get_average" => ret = Frac(Sum(durs), Len(durs))

\* C8 witness: several different durations were recorded, the greatest not last.
C8_Witness ==
    /\ op = "get_max"
    /\ Len(durs) >= 3
    /\ durs[1] > durs[3]
    /\ durs[2] < durs[3]
    /\ ret = Num(durs[1])

\* C9 (as stated): with no interval recorded, get_average(), get_min() and
\* get_max() each return None.
C9_NoDataIsNone ==
    inference_timer.times = <<>> =>
        /\ op = "get_average" => ret = None
        /\ op = "get_min" => ret = None
        /\ op = "get_max" => ret = None

----------------------------------------------------------------------------
(* Claims about the logger and the summary, checked under SpecLogger *)

\* the positions of the records that carry field k
PresentAt(buf, k) == {i \in DOMAIN buf : k \in DOMAIN buf[i]}

\* the positions of the records that carry a temperature reading
TempAt(buf) ==
    {i \in DOMAIN buf : "temperature" \in DOMAIN buf[i] /\ buf[i].temperature # None}

RECURSIVE SumAt(_, _)
SumAt(value, S) ==
    IF S = {} THEN Zero
    ELSE LET i == CHOOSE j \in S : TRUE
         IN  FracAdd(value[i], SumAt(value, S \ {i}))

\* avg is the mean of value over the positions S, 0 when S is empty
IsMeanAt(avg, value, S) ==
    IF S = {} THEN avg = Zero ELSE FracMulInt(avg, Cardinality(S)) = SumAt(value, S)

\* m is the greatest of value over the positions S, 0 when S is empty
IsMaxAt(m, value, S) ==
    IF S = {} THEN m = Zero
    ELSE (\E i \in S : value[i] = m) /\ (\A i \in S : FracLe(value[i], m))

\* m is the least of value over the positions S, 0 when S is empty
IsMinAt(m, value, S) ==
    IF S = {} THEN m = Zero
    ELSE (\E i \in S : value[i] = m) /\ (\A i \in S : FracLe(m, value[i]))

\* the values of field k, by position (0 where the model never reads it)
FieldAt(buf, k) == [i \in DOMAIN buf |-> IF k \in DOMAIN buf[i] THEN buf[i][k] ELSE Zero]

TemperatureAt(buf) ==
    [i \in DOMAIN buf |-> IF i \in TempAt(buf) THEN Val(buf[i].temperature) ELSE Zero]

\* C11: for every buffer, the empty one and ones where a field is absent or
\* unavailable on some or all records included, _write_summary returns a summary
\* whose avg/min/max of a field are taken over exactly the records that carry the
\* field, are 0 when no record carries it, and whose temperature fields are there
\* iff some record has a temperature.
C11_SummaryOverPresentValues ==
    op = "_write_summary" =>
        LET buf == metrics_buffer
            s == Val(summary)
            ms(q) == FracMulInt(q, 1000)
            inf == PresentAt(buf, "inference_time")
        IN  /\ IsMinAt(s.min_fps, FieldAt(buf, "fps"), PresentAt(buf, "fps"))
            /\ IsMaxAt(s.max_fps, FieldAt(buf, "fps"), PresentAt(buf, "fps"))
            /\ IsMeanAt(s.avg_inference_ms,
                        [i \in DOMAIN buf |-> ms(FieldAt(buf, "inference_time")[i])], inf)
            /\ IsMinAt(s.min_inference_ms,
                       [i \in DOMAIN buf |-> ms(FieldAt(buf, "inference_time")[i])], inf)
            /\ IsMaxAt(s.max_inference_ms,
                       [i \in DOMAIN buf |-> ms(FieldAt(buf, "inference_time")[i])], inf)
            /\ IsMeanAt(s.avg_cpu, FieldAt(buf, "cpu_percent"),
                        PresentAt(buf, "cpu_percent"))
            /\ IsMaxAt(s.max_cpu, FieldAt(buf, "cpu_percent"),
                       PresentAt(buf, "cpu_percent"))
            /\ IsMeanAt(s.avg_memory, FieldAt(buf, "memory_percent"),
                        PresentAt(buf, "memory_percent"))
            /\ IsMaxAt(s.max_memory, FieldAt(buf, "memory_percent"),
                       PresentAt(buf, "memory_percent"))
            /\ s.throttle_events =
                   Cardinality({i \in PresentAt(buf, "throttled") : buf[i].throttled})
            /\ IF TempAt(buf) = {}
               THEN {"avg_temperature", "max_temperature", "temp_rise"}
                        \cap DOMAIN s = {}
               ELSE /\ IsMeanAt(s.avg_temperature, TemperatureAt(buf), TempAt(buf))
                    /\ IsMaxAt(s.max_temperature, TemperatureAt(buf), TempAt(buf))

\* C11 witness: a summary was computed over a buffer in which cpu_percent is on
\* some records and absent on another, one temperature is unavailable and another
\* is not, and no record carries fps.
C11_Witness ==
    /\ op = "_write_summary"
    /\ PresentAt(metrics_buffer, "cpu_percent") # {}
    /\ PresentAt(metrics_buffer, "cpu_percent") # DOMAIN metrics_buffer
    /\ PresentAt(metrics_buffer, "fps") = {}
    /\ TempAt(metrics_buffer) # {}
    /\ \E i \in DOMAIN metrics_buffer :
          "temperature" \in DOMAIN metrics_buffer[i] /\ metrics_buffer[i].temperature = None
    /\ Val(summary).min_fps = Zero

\* C12: whenever a record carries a temperature, temp_rise is the greatest
\* temperature of the buffer minus the temperature of the first record that has
\* one, and is not negative.
C12_TempRiseFromFirstReading ==
    (op = "_write_summary" /\ TempAt(metrics_buffer) # {}) =>
        LET temp == TemperatureAt(metrics_buffer)
            first == CHOOSE i \in TempAt(metrics_buffer) :
                         \A j \in TempAt(metrics_buffer) : i <= j
            rise == Val(summary).temp_rise
        IN  /\ IsMaxAt(FracAdd(rise, temp[first]), temp, TempAt(metrics_buffer))
            /\ FracLe(Zero, rise)

\* C12 witness: the first temperature of the run is neither the lowest nor the
\* highest one, and the rise is positive.
C12_Witness ==
    /\ op = "_write_summary"
    /\ TempAt(metrics_buffer) # {}
    /\ LET temp == TemperatureAt(metrics_buffer)
           first == CHOOSE i \in TempAt(metrics_buffer) :
                        \A j \in TempAt(metrics_buffer) : i <= j
       IN  /\ \E j \in TempAt(metrics_buffer) : ~FracLe(temp[first], temp[j])
           /\ \E j \in TempAt(metrics_buffer) : ~FracLe(temp[j], temp[first])
           /\ Val(summary).temp_rise # Zero

\* the metric lines of the human-readable log
MetricLines == SelectSeq(log_file, LAMBDA line : line = "metric")

\* C13 (as stated): after write_header and any sequence of log_metric,
\* log_inference and log_system_snapshot calls, the log holds as many metric
\* lines as metrics_buffer holds records.
C13_OneLinePerRecord == Len(MetricLines) = Len(metrics_buffer)

----------------------------------------------------------------------------
(* Claim about the loggers' files, checked under SpecPaths *)

\* C14 (as stated): any two BenchmarkLogger instances constructed for the same
\* model name in the same log directory, at any two construction times, the same
\* clock second included, have distinct log_path and distinct json_path.
C14_DistinctPaths ==
    \A i, j \in DOMAIN loggers :
        (i # j /\ loggers[i].log_dir = loggers[j].log_dir) =>
            /\ loggers[i].log_path # loggers[j].log_path
            /\ loggers[i].json_path # loggers[j].json_path

----------------------------------------------------------------------------
(* Claims about SystemMonitor, checked under SpecThrottle and SpecMonitor *)

\* bit i of the word v is set
BitOf(v, i) == (v \div Pow(2, i)) % 2 = 1

\* C15: for every status word v, get_throttling_status returns the flags
\* under_voltage_now = bit 0, freq_capped_now = bit 1, throttled_now = bit 2,
\* soft_temp_limit_now = bit 3, under_voltage_occurred = bit 16,
\* freq_capped_occurred = bit 17, throttled_occurred = bit 18 and
\* soft_temp_limit_occurred = bit 19 of v, whatever the other bits are.
C15_ThrottleBits ==
    op = "get_throttling_status" =>
        /\ ret.raised = "none"
        /\ ret.value # None
        /\ LET v == sensors.status_word
               flags == Val(ret.value)
           IN  /\ flags.under_voltage_now = BitOf(v, 0)
               /\ flags.freq_capped_now = BitOf(v, 1)
               /\ flags.throttled_now = BitOf(v, 2)
               /\ flags.soft_temp_limit_now = BitOf(v, 3)
               /\ flags.under_voltage_occurred = BitOf(v, 16)
               /\ flags.freq_capped_occurred = BitOf(v, 17)
               /\ flags.throttled_occurred = BitOf(v, 18)
               /\ flags.soft_temp_limit_occurred = BitOf(v, 19)

\* C15 witness: the word 0x50005 was decoded, and exactly under_voltage_now,
\* throttled_now, under_voltage_occurred and throttled_occurred are set.
C15_Witness ==
    /\ op = "get_throttling_status"
    /\ sensors.get_throttled.stdout = <<"t", "h", "r", "o", "t", "t", "l", "e", "d", "=", "0", "x", "5", "0", "0", "0", "5", "\n">>
    /\ ret.value # None
    /\ LET flags == Val(ret.value)
       IN  {k \in DOMAIN flags \ {"raw_value"} : flags[k]}
               = {"under_voltage_now", "throttled_now", "under_voltage_occurred",
                  "throttled_occurred"}

\* C16: on a detected platform get_throttling_status returns None, and raises
\* nothing, when the tool is missing, times out, exits with a non-zero code, prints
\* no '=' or prints a value that is not hexadecimal.
C16_ThrottlingFailuresGiveNone ==
    op = "get_throttling_status" =>
        /\ ret.raised = "none"
        /\ \A i \in DOMAIN attempted :
              attempted[i].gave \in GetThrottledFailures => ret.value = None

\* C16 witness: the tool printed a value that is not hexadecimal and the call
\* returned None.
C16_Witness ==
    /\ op = "get_throttling_status"
    /\ attempted # <<>>
    /\ attempted[1].gave = ThrottledNotHex
    /\ ret = [raised |-> "none", value |-> None]

\* C17: on a detected platform get_cpu_temp asks vcgencmd first and returns its
\* reading when it succeeds and parses; on every failure of it (tool missing,
\* timeout, non-zero exit, malformed output) it asks the thermal_zone file and
\* returns that reading; it returns None only when both fail; it never raises.
C17_TempFallback ==
    (op = "get_cpu_temp" /\ is_raspberry_pi) =>
        /\ ret.raised = "none"
        /\ attempted # <<>>
        /\ attempted[1].sensor = "measure_temp"
        /\ IF attempted[1].gave = TempReads
           THEN /\ Len(attempted) = 1
                /\ ret.value = Some(Frac(428, 10))
           ELSE /\ attempted[1].gave \in MeasureTempFailures
                /\ Len(attempted) = 2
                /\ attempted[2].sensor = "thermal_zone0"
                /\ IF attempted[2].gave = ThermalReads
                   THEN ret.value = Some(Num(45))
                   ELSE attempted[2].gave \in ThermalFailures /\ ret.value = None

\* C17 witness: vcgencmd printed a malformed reading and the thermal_zone reading
\* was returned.
C17_Witness ==
    /\ op = "get_cpu_temp"
    /\ is_raspberry_pi
    /\ Len(attempted) = 2
    /\ attempted[1].gave = TempNotANumber
    /\ attempted[2].gave = ThermalReads
    /\ ret = [raised |-> "none", value |-> Some(Num(45))]

\* C18: on a monitor whose platform probe found no supported platform, every
\* call of get_cpu_temp and get_throttling_status returns None without asking a
\* sensor, whatever the sensors would give, and get_full_snapshot returns a
\* snapshot whose temperature and throttling are None.
C18_UnsupportedPlatformAsksNothing ==
    ~is_raspberry_pi =>
        /\ attempted = <<>>
        /\ ret.raised = "none"
        /\ op \in {"__init__", "get_cpu_temp", "get_throttling_status"} =>
              ret.value = None
        /\ op = "get_full_snapshot" =>
              /\ DOMAIN ret.value = {"timestamp", "cpu", "memory", "load",
                                     "temperature", "throttling"}
              /\ ret.value.temperature = None
              /\ ret.value.throttling = None

\* C18 witness: on an unsupported platform a snapshot was taken while both
\* vcgencmd commands were working.
C18_Witness ==
    /\ ~is_raspberry_pi
    /\ op = "get_full_snapshot"
    /\ sensors.measure_temp = TempReads
    /\ sensors.get_throttled = ThrottledExample
    /\ ret.value.temperature = None

----------------------------------------------------------------------------
(* Claims about the comparator, checked under SpecCompare *)

\* C19: with fewer than two runs loaded, compare() returns normally a result
\* with no winner and no performance entry, and a run of main() whose comparator
\* holds fewer than two runs prints no report and writes no comparison file.
C19_FewerThanTwoGivesNothing ==
    /\ (op = "compare" /\ Len(comparator.results) < 2) =>
          /\ ret.raised = "none"
          /\ "winner" \notin DOMAIN ret.value
          /\ "performance" \notin DOMAIN ret.value
          /\ DOMAIN ret.value = {}
    /\ (op = "main" /\ Len(comparator.results) < 2) =>
          /\ outputs.report = None
          /\ outputs.file = None

\* C19 witness: main() was given one log path only, loaded it, and compare()
\* reported that two runs are needed.
C19_Witness ==
    /\ op = "main"
    /\ Len(comparator.results) = 1
    /\ outputs.messages = <<"need_two">>
    /\ outputs.report = None
    /\ outputs.file = None

\* the value of field key in the summary of the i-th loaded run, 0 when absent
ValueAt(i, key) ==
    LET sm == comparator.results[i].value.summary
    IN  IF key \in DOMAIN sm THEN sm[key] ELSE Zero

\* p = |o - b| / b * 100, cross-multiplied over the integers
IsPercentage(p, b, o) ==
    LET n == o[1] * b[2] - b[1] * o[2]
        absn == IF n < 0 THEN 0 - n ELSE n
    IN  p[1] * b[1] * o[2] = 100 * absn * p[2]

\* q1 < q2 over the integers
Less(q1, q2) == q1[1] * q2[2] < q2[1] * q1[2]

\* imp reports the second run against the first for field key
ReportsSecondAgainstFirst(imp, key, lower_is_better) ==
    LET b == ValueAt(1, key)
        o == ValueAt(2, key)
        second_better == IF lower_is_better THEN Less(o, b) ELSE Less(b, o)
    IN  /\ IsPercentage(imp.percentage, b, o)
        /\ imp.better_model = comparator.results[IF second_better THEN 2 ELSE 1].name
        /\ imp.direction = IF second_better THEN "improvement" ELSE "regression"

\* C20: when compare() is called with exactly two runs loaded whose first has
\* avg_fps > 0 and avg_inference_ms > 0, it returns normally, and for each of the
\* two metrics the percentage is |o - b| / b * 100 (b the first run's value, o the
\* second's), better_model is the second model iff it is strictly better (higher
\* FPS, lower inference time), and direction is "improvement" iff the second is
\* strictly better, else "regression".
C20_ImprovementOverBaseline ==
    (/\ op = "compare"
     /\ Len(comparator.results) = 2
     /\ Less(Zero, ValueAt(1, "avg_fps"))
     /\ Less(Zero, ValueAt(1, "avg_inference_ms"))) =>
        /\ ret.raised = "none"
        /\ ReportsSecondAgainstFirst(ret.value.performance.fps_improvement,
                                     "avg_fps", FALSE)
        /\ ReportsSecondAgainstFirst(ret.value.performance.inference_improvement,
                                     "avg_inference_ms", TRUE)

\* C20 witness: a run with 20 FPS and 50 ms was loaded, then one with 25 FPS and
\* 40 ms; compare() names the second as both winners, with 25% and 20%, both
\* "improvement".
C20_Witness ==
    /\ op = "compare"
    /\ Len(comparator.results) = 2
    /\ ValueAt(1, "avg_fps") = Num(20)
    /\ ValueAt(1, "avg_inference_ms") = Num(50)
    /\ ValueAt(2, "avg_fps") = Num(25)
    /\ ValueAt(2, "avg_inference_ms") = Num(40)
    /\ ret.raised = "none"
    /\ ret.value.winner.fps = comparator.results[2].name
    /\ ret.value.winner.inference = comparator.results[2].name
    /\ ret.value.performance.fps_improvement =
          [percentage |-> Num(25), better_model |-> comparator.results[2].name,
           direction |-> "improvement"]
    /\ ret.value.performance.inference_improvement =
          [percentage |-> Num(20), better_model |-> comparator.results[2].name,
           direction |-> "improvement"]

\* the models of a printed report that no model beats in category wins
Leaders(rep) ==
    { rep.category_wins[i].name : i \in
        { k \in DOMAIN rep.category_wins :
            \A j \in DOMAIN rep.category_wins :
                rep.category_wins[j].value[1] <= rep.category_wins[k].value[1] } }

\* C21: in the report main() prints, the overall winner is a model with the
\* greatest number of category wins, and when the models have the same number of
\* wins the report names none of them as the overall winner.
C21_OverallWinnerOrTie ==
    (op = "main" /\ outputs.report # None) =>
        LET rep == Val(outputs.report)
        IN  IF Cardinality(Leaders(rep)) = 1
            THEN rep.overall_winner \in Leaders(rep)
            ELSE rep.overall_winner \notin Leaders(rep)

\* the i-th loaded run reports temperature data
ReportsTemperature(i) == ValueAt(i, "avg_temperature") # Zero

\* C22: a comparison compare() returns for two loaded runs has a temperature
\* entry, a temperature winner and a throttle-event entry only if both runs
\* report temperature data.
C22_TemperatureOnlyIfBothReport ==
    (/\ op = "compare"
     /\ Len(comparator.results) = 2
     /\ ret.raised = "none") =>
        \/ /\ "temperature" \notin DOMAIN ret.value.system
           /\ "temperature" \notin DOMAIN ret.value.winner
           /\ "throttle_events" \notin DOMAIN ret.value.system
        \/ ReportsTemperature(1) /\ ReportsTemperature(2)

----------------------------------------------------------------------------
(* Further claims about FPSCalculator, checked under SpecFPS *)

\* C23 (as stated): the first update() after start(), and the first update() on a
\* fresh or reset calculator, records no interval: the window stays empty and the
\* call returns 0.0; the second update() records the first interval.
C23_FirstUpdateRecordsNothing ==
    op = "update" =>
        /\ fps_calc.frame_count = 1 =>
              /\ fps_calc.frame_times = <<>>
              /\ ret = Zero
        /\ fps_calc.frame_count = 2 => Len(fps_calc.frame_times) = 1

\* C23 (amended): the first update() on a fresh or reset calculator records no
\* interval and returns 0.0, and the second records the first interval; the first
\* update() after start() records the interval since start(), and returns its
\* inverse when it is positive and 0.0 when it is not.
C23_FirstUpdateAfterStartRecords ==
    op = "update" =>
        /\ (fps_calc.frame_count = 1 /\ fps_calc.start_time = None) =>
              /\ fps_calc.frame_times = <<>>
              /\ ret = Zero
        /\ (fps_calc.frame_count = 2 /\ fps_calc.start_time = None) =>
              Len(fps_calc.frame_times) = 1
        /\ (fps_calc.frame_count = 1 /\ fps_calc.start_time # None) =>
              LET interval == Val(fps_calc.last_frame_time) - Val(fps_calc.start_time)
              IN  /\ fps_calc.frame_times = <<interval>>
                  /\ ret = IF interval > 0 THEN Frac(1, interval) ELSE Zero

\* C23 witness: the first update() after start() came two clock readings after it,
\* recorded that interval and returned a non-zero rate.
C23_Witness ==
    /\ op = "update"
    /\ fps_calc.frame_count = 1
    /\ fps_calc.start_time # None
    /\ fps_calc.frame_times = <<2>>
    /\ ret = Frac(1, 2)

----------------------------------------------------------------------------
(* Claims about logged snapshots, checked under SpecSnapshots *)

\* C24: the record log_system_snapshot appends for a snapshot with throttling
\* data has throttled = true iff under_voltage_now, freq_capped_now or
\* throttled_now is set in that snapshot.
C24_ThrottledIffAnyActiveCondition ==
    (/\ op = "log_system_snapshot"
     /\ snapshot # None
     /\ Val(snapshot).throttling # None) =>
        LET record == metrics_buffer[Len(metrics_buffer)]
            throttle == Val(Val(snapshot).throttling)
        IN  /\ "throttled" \in DOMAIN record
            /\ record.throttled = (\/ throttle.under_voltage_now
                                   \/ throttle.freq_capped_now
                                   \/ throttle.throttled_now)

----------------------------------------------------------------------------
(* Further claims about a benchmark run, checked under Spec *)

\* C25: in every state of a run the timestamps of the records in metrics_buffer
\* are non-decreasing in buffer order.
C25_TimestampsInBufferOrder ==
    \A i, j \in DOMAIN metrics_buffer :
        i < j => metrics_buffer[i].timestamp <= metrics_buffer[j].timestamp

----------------------------------------------------------------------------
(* Claims about the camera loop, checked under SpecCamera *)

\* the captures of the run that gave a frame
SuccessfulCaptures == Len(SelectSeq(captures, LAMBDA frame_ok : frame_ok))

\* a step in which cap.read() gives no frame
CaptureFails == captures' = Append(captures, FALSE)

\* C26: a step of the camera loop in which the capture fails leaves frame_count,
\* the FPSCalculator, the InferenceTimer and the records appended by the main
\* thread as they were and puts the main thread back at the loop condition; so
\* the calculator never counts more frames than were captured, and total_frames of
\* the summary is at most the number of captured frames, and equal to it when the
\* run was not interrupted.
C26_FailedCaptureChangesNothing ==
    /\ [][CaptureFails =>
            /\ pc' = "loop"
            /\ loc' = loc
            /\ fps_calc' = fps_calc
            /\ inference_timer' = inference_timer
            /\ main_appended' = main_appended]_vars
    /\ [](/\ fps_calc.frame_count <= SuccessfulCaptures
          /\ summary # None =>
                /\ Val(summary).total_frames <= SuccessfulCaptures
                /\ ~interrupted => Val(summary).total_frames = SuccessfulCaptures)

\* C26 witness: the first capture failed, the next gave a frame, and the summary
\* of the finished run counts one frame.
C26_Witness ==
    /\ captures = <<FALSE, TRUE>>
    /\ ~interrupted
    /\ summary # None
    /\ Val(summary).total_frames = 1

----------------------------------------------------------------------------
(* Claims about a run whose input cannot be opened, checked under Spec *)

\* C27: once a run has returned because the camera could not be opened or the
\* image could not be loaded, the sampler thread was never started, metrics_buffer
\* is empty, and write_summary and save_json were never called.
C27_FailedOpenCollectsNothing ==
    pc = "aborted" =>
        /\ sampler_pc = "none"
        /\ ~monitoring_active
        /\ metrics_buffer = <<>>
        /\ sampler_appended = <<>>
        /\ calls = [write_summary |-> 0, save_json |-> 0]
        /\ summary = None
        /\ json_file = None

\* C27 witness: a camera run returned because the camera could not be opened.
C27_Witness ==
    /\ pc = "aborted"
    /\ mode = "camera"
    /\ cap = "none"
    /\ log_file = <<"header">>

----------------------------------------------------------------------------
(* Further claims about the comparator, checked under SpecCompare *)

\* C28: compare() called with two runs loaded returns a comparison and raises
\* nothing, whatever summaries the two runs persisted.
C28_CompareNeverRaises ==
    (op = "compare" /\ Len(comparator.results) = 2) =>
        /\ ret.raised = "none"
        /\ DOMAIN ret.value # {}

\* C29: whenever compare() returns a comparison of two loaded runs, winner.fps is
\* fps_improvement.better_model and winner.inference is
\* inference_improvement.better_model, also when the two runs have equal values.
C29_WinnerIsBetterModel ==
    (/\ op = "compare"
     /\ Len(comparator.results) = 2
     /\ ret.raised = "none") =>
        /\ ret.value.winner.fps = ret.value.performance.fps_improvement.better_model
        /\ ret.value.winner.inference =
              ret.value.performance.inference_improvement.better_model

\* C29 witness: two runs with the same FPS and the same inference time were
\* compared, and the first-loaded one is winner and better model of both metrics.
C29_Witness ==
    /\ op = "compare"
    /\ Len(comparator.results) = 2
    /\ ret.raised = "none"
    /\ ValueAt(1, "avg_fps") = ValueAt(2, "avg_fps")
    /\ ValueAt(1, "avg_inference_ms") = ValueAt(2, "avg_inference_ms")
    /\ ret.value.winner.fps = comparator.results[1].name
    /\ ret.value.winner.inference = comparator.results[1].name
    /\ ret.value.performance.fps_improvement.better_model = comparator.results[1].name

----------------------------------------------------------------------------
(* Claims about stopping the sampler, checked under SpecStop *)

\* _stop_monitoring has cleared the flag of a started sampler
Stopped == ~monitoring_active /\ sampler_pc # "none"

\* C30: once _stop_monitoring has cleared monitoring_active, the sampler appends
\* only the snapshot it was already taking and takes no further one, so it appends
\* at most one more record, and under fair scheduling it terminates, also when
\* join(timeout=2.0) has given up before.
C30_StoppedSamplerEnds ==
    /\ [][Stopped =>
            /\ sampler_appended' # sampler_appended => sampler_pc = "snapshot"
            /\ sampler_pc # "snapshot" => sampler_pc' # "snapshot"]_vars
    /\ (Stopped ~> sampler_pc = "done")

\* C30 witness: join gave up, save_json wrote the buffer, and the sampler then
\* appended the one snapshot it was taking and terminated.
C30_Witness ==
    /\ sampler_pc = "done"
    /\ json_file # None
    /\ Len(metrics_buffer) = Len(Val(json_file).metrics) + 1
    /\ sampler_appended # <<>>

====
